---- MODULE Spec2Model ----
(***************************************************************************)
(* The admission-controlled process runner of app/codex.py:                *)
(*   _CodexConcurrencyLimiter (configure, slot), run_codex (streaming) and *)
(*   run_codex_last_message (batch).                                       *)
(* Each execution is one asyncio task; an action is the code that runs     *)
(* between two suspension points (await / yield).  Wall-clock timeouts are *)
(* events that may fire whenever the code has armed them.                  *)
(***************************************************************************)
EXTENDS Integers, FiniteSets, Sequences, TLC

NumTasks == 2      \* executions started over the life of the process
MaxPar == 2        \* largest max_parallel value passed to configure()
MaxConfigs == 1    \* calls of configure() after construction
MaxWrites == 5     \* writes a subprocess performs before it exits
PipeCap == 2       \* writes a pipe holds before the writer blocks
MaxLines == 4      \* lines fed to one output filter
MaxPreamble == 1   \* metadata lines before the user-instructions line
MaxUserLines == 1  \* lines of a user-instructions block after its first
MaxBody == 3       \* body and blank lines after the assistant marker
MaxTrailing == 1   \* metadata lines after the body
MaxChars == 5      \* characters of a text given to _json_structure_delta
NumThreads == 2    \* threads calling _ensure_workdir_exists
MaxCalls == 3      \* calls of _ensure_workdir_exists over all threads
MaxFsChanges == 1  \* times the writability of the directories changes
MaxFailureLines == 2  \* lines of each text given to _classify_codex_failure
MaxChunks == 3     \* texts run_codex yields to one streaming response
NumRequests == 2   \* requests handled at the same time
MaxImages == 2     \* image URLs of one request

Tasks == 1..NumTasks
SemIds == 0..MaxConfigs

\* Values offered to configure(max_parallel, queue_timeout_seconds).
ParallelInputs == 0..MaxPar
QueueTimeoutInputs == {"None", "neg", "zero", "pos"}
\* Values of settings.timeout_seconds.
TimeoutSettings == {"zero", "pos"}

VARIABLES
    max_parallel,            \* _parallel_limiter._max_parallel
    queue_timeout_seconds,   \* _parallel_limiter._queue_timeout_seconds: "zero" | "pos"
    semaphore,               \* identity of the Semaphore object in _parallel_limiter._semaphore
    permits,                 \* permits[s]: the _value of Semaphore object s
    timeout_seconds,         \* settings.timeout_seconds
    task,                    \* task[t]: the locals of execution t
    pipe,                    \* one streaming execution seen with its two pipes
    filt,                    \* the fields of one _CodexOutputFilter
    fed,                     \* the lines passed to its process() so far
    parts,                   \* the results of process() that were not empty, in order
    shape,                   \* where a transcript fed part by part stands
    scan,                    \* a text and, once computed, its _json_structure_delta
    paths,                   \* the directory settings, the caches and the file system
    threads,                 \* the threads calling _ensure_workdir_exists, and its lock and flag
    build,                   \* the inputs of _build_cmd_and_env and the list it returned
    failure,                 \* the texts given to _classify_codex_failure and its result
    sse,                     \* event_gen of a streaming chat completion and the events it produced
    choice,                  \* the model registry, a requested model and what choose_model returned
    last,                    \* the output of one successful batch run
    req                      \* the chat-completions and responses requests

runnerVars == <<max_parallel, queue_timeout_seconds, semaphore, permits, timeout_seconds, task>>

\* What the limiter and the executions above never touch.
filterVars == <<filt, fed, parts, shape>>

outsideRunner == <<pipe, filterVars, scan, paths, threads, build, failure, sse, choice, last, req>>

vars == <<runnerVars, outsideRunner>>

limiterConfig == <<max_parallel, queue_timeout_seconds, semaphore, timeout_seconds>>

----------------------------------------------------------------------------
(* _CodexConcurrencyLimiter.configure *)

\* value = max(1, int(max_parallel or 1))
ParallelValue(x) == IF x < 1 THEN 1 ELSE x

\* max(0.0, float(queue_timeout_seconds)), None keeping the stored value
QueueTimeoutValue(q, stored) ==
    CASE q = "None" -> stored
      [] q = "pos"  -> "pos"
      [] OTHER      -> "zero"

NewTask ==
    [ pc          |-> "idle",
      mode        |-> "none",
      semRef      |-> 0,         \* the Semaphore object acquire() was called on
      waitTimeout |-> "zero",    \* the timeout handed to wait_for around acquire()
      acquired    |-> FALSE,     \* slot(): acquired
      proc        |-> FALSE,     \* proc is not None
      returncode  |-> "None",    \* proc.returncode: "None" | "zero" | "nonzero" | "sigkill"
      stderr_task |-> "none",    \* "none" | "running" | "cancelling" | "done" | "cancelled"
      out_path    |-> FALSE,     \* the temporary last-message file exists
      pending     |-> "none",    \* the exception in flight while a handler or finally awaits
      outcome     |-> "none",    \* what the call delivered to its caller
      killed      |-> FALSE,     \* history: proc.kill() was called
      cancelled   |-> FALSE,     \* history: the caller cancelled the task
      timedOutAt  |-> "none",    \* history: where the execution budget was found exhausted
      nAcq        |-> 0,         \* history: successful acquisitions
      nRel        |-> 0 ]        \* history: releases

\* No streaming execution is being looked at pipe by pipe.
NoPipe ==
    [ script |-> << >>, stdout |-> 0, stderr |-> 0, child |-> "none",
      returncode |-> "None", reader |-> "none", stderr_task |-> "none",
      nRead |-> 0, nLines |-> 0 ]

\* _CodexOutputFilter.__init__
NewFilter ==
    [ saw_assistant     |-> FALSE,
      emitted_any       |-> FALSE,
      in_user_block     |-> FALSE,
      skip_tool_output  |-> FALSE,
      tool_output_depth |-> 0 ]

\* The lines fed follow no prescribed shape.
NoShape == [phase |-> "free", preamble |-> 0, user |-> 0, body |-> << >>, trailing |-> 0]

\* A path is the sequence of its components; None is the empty sequence.
NoPath == << >>

\* The directory settings as loaded, nothing resolved yet, no directory usable.
NoPaths ==
    [ codex_workdir    |-> <<"work">>,   \* settings.codex_workdir
      WORKDIR_PATH     |-> NoPath,       \* _WORKDIR_PATH
      codex_config_dir |-> NoPath,       \* settings.codex_config_dir
      CODEX_HOME       |-> NoPath,       \* os.environ["CODEX_HOME"]
      child_CODEX_HOME |-> NoPath,       \* env["CODEX_HOME"] of the last _build_codex_env()
      usable           |-> {},           \* the directories that can be created and written
      tmp_is_link      |-> FALSE,        \* the temporary directory is reached through a symlink
      call             |-> "none",       \* history: the last resolver called
      probed           |-> << >>,        \* history: the candidates it probed, in order
      selected         |-> NoPath,       \* history: the candidate it selected
      raised           |-> FALSE ]       \* history: it raised CodexError

\* No thread is in _ensure_workdir_exists and _WORKDIR_LOCK is free.
NoThreads ==
    [ lock     |-> 0,        \* the thread holding _WORKDIR_LOCK, 0 when it is free
      skip_git |-> FALSE,    \* _WORKDIR_NEEDS_SKIP_GIT_CHECK
      git      |-> {},       \* the directories inside a git repository
      pc       |-> [t \in 1..NumThreads |-> "idle"],
      cands    |-> [t \in 1..NumThreads |-> << >>],   \* the local "candidates" not yet tried
      resolved |-> [t \in 1..NumThreads |-> << >>],   \* the local "resolved"
      errors   |-> [t \in 1..NumThreads |-> << >>],   \* the paths of the local "errors"
      raised   |-> 0,        \* history: calls that raised CodexError
      late     |-> [t \in 1..NumThreads |-> FALSE],   \* history: called after a resolution completed
      calls    |-> 0,        \* history: calls made
      changes  |-> 0,        \* history: changes of the file system
      probes   |-> 0,        \* history: candidates probed
      assigns  |-> 0 ]       \* history: assignments of _WORKDIR_PATH

\* No command has been asked for.
NoBuild ==
    [ sandbox_mode             |-> <<"read-only">>,   \* settings.sandbox_mode
      hide_reasoning           |-> FALSE,             \* settings.hide_reasoning
      reasoning_effort         |-> <<"medium">>,      \* settings.reasoning_effort
      workspace_network_access |-> FALSE,             \* settings.workspace_network_access
      skip_git                 |-> FALSE,             \* _WORKDIR_NEEDS_SKIP_GIT_CHECK
      model                    |-> << >>,             \* the argument "model", << >> for None
      overrides                |-> << >>,             \* the argument "overrides", in dict order
      images                   |-> << >>,             \* the argument "images"
      built                    |-> FALSE,
      cmd                      |-> << >> ]            \* the list returned

\* No failure is being classified.
NoFailure ==
    [ stdout_text |-> << >>, stderr_text |-> << >>, computed |-> FALSE,
      message |-> << >>, status_code |-> "None" ]

\* No streaming response has been started.
NoSse ==
    [ pc      |-> "none",     \* where event_gen stands
      events  |-> << >>,      \* the events handed to the response so far
      texts   |-> << >>,      \* history: what run_codex has yielded
      outcome |-> "none",     \* history: how run_codex ended
      message |-> << >>,      \* str(e) of its CodexError
      status_code |-> 0 ]     \* e.status_code, 0 for None

\* No model has been asked for.
NoChoice ==
    [ AVAILABLE_MODELS    |-> << >>,    \* _AVAILABLE_MODELS
      REASONING_ALIAS_MAP |-> << >>,    \* _REASONING_ALIAS_MAP, as a dict
      requested           |-> << >>,    \* the argument of choose_model, << >> for None
      computed            |-> FALSE,
      result              |-> << >> ]   \* <<model, effort>>, or <<"ValueError">>

\* No batch run has delivered its output.
NoLast ==
    [ readable    |-> FALSE,    \* open(out_path) and f.read() succeed
      file_text   |-> << >>,    \* the content of the last-message file
      stdout_data |-> << >>,    \* the decoded stdout of communicate()
      computed    |-> FALSE,
      result      |-> << >> ]   \* what run_codex_last_message returns

\* No request has been received.
NoRequests ==
    [ r \in 1..NumRequests |->
        [ pc          |-> "idle",    \* where the handling of the request is
          endpoint    |-> "none",    \* "chat" | "responses"
          stream      |-> FALSE,     \* req.stream
          image_paths |-> 0,         \* len(image_paths): the paths are 1..image_paths
          files       |-> {},        \* the paths whose temporary file exists
          execution   |-> "none",    \* the run given image_paths: "none" | "running" | "finished"
          status      |-> 0 ] ]      \* the status of the response, 0 while there is none

\* No text is being scanned.
NoScan == [text |-> << >>, computed |-> FALSE, delta |-> 0]

Init ==
    /\ max_parallel \in {ParallelValue(x) : x \in ParallelInputs}
    /\ queue_timeout_seconds \in {QueueTimeoutValue(q, "zero") : q \in QueueTimeoutInputs \ {"None"}}
    /\ semaphore = 0
    /\ permits = [s \in SemIds |-> IF s = 0 THEN max_parallel ELSE 0]
    /\ timeout_seconds \in TimeoutSettings
    /\ task = [t \in Tasks |-> NewTask]
    /\ pipe = NoPipe
    /\ filt = NewFilter /\ fed = << >> /\ parts = << >> /\ shape = NoShape
    /\ scan = NoScan
    /\ paths = NoPaths
    /\ threads = NoThreads
    /\ build = NoBuild
    /\ failure = NoFailure
    /\ sse = NoSse
    /\ choice = NoChoice
    /\ last = NoLast
    /\ req = NoRequests

\* The limiter as constructed from the default settings, no execution started,
\* the execution timeout switched off (timeout_seconds <= 0).
RunnerAtRest ==
    /\ max_parallel = ParallelValue(MaxPar)
    /\ queue_timeout_seconds = "pos"
    /\ semaphore = 0
    /\ permits = [s \in SemIds |-> IF s = 0 THEN max_parallel ELSE 0]
    /\ timeout_seconds = "zero"
    /\ task = [t \in Tasks |-> NewTask]

Configure(mp, qt) ==
    /\ semaphore < MaxConfigs
    /\ max_parallel' = ParallelValue(mp)
    /\ queue_timeout_seconds' = QueueTimeoutValue(qt, queue_timeout_seconds)
    /\ semaphore' = semaphore + 1
    /\ permits' = [permits EXCEPT ![semaphore + 1] = ParallelValue(mp)]
    /\ UNCHANGED <<timeout_seconds, task, outsideRunner>>

----------------------------------------------------------------------------
(* _CodexConcurrencyLimiter.slot *)

\* self._semaphore.release(): the attribute is read when the release runs.
ReleaseTarget == semaphore

Released ==
    [permits EXCEPT ![ReleaseTarget] = @ + 1]

\* The task suspends (or finishes) with locals r; nothing of the limiter changes.
Suspend(t, r) ==
    /\ task' = [task EXCEPT ![t] = r]
    /\ UNCHANGED <<limiterConfig, permits, outsideRunner>>

\* slot(): "finally: if acquired: self._semaphore.release()", then r continues.
SlotRelease(r) ==
    IF r.acquired
    THEN [r EXCEPT !.acquired = FALSE, !.nRel = @ + 1]
    ELSE r

SlotExit(t, r) ==
    /\ task' = [task EXCEPT ![t] = SlotRelease(r)]
    /\ permits' = IF r.acquired THEN Released ELSE permits
    /\ UNCHANGED <<limiterConfig, outsideRunner>>

\* The call is over: exception e (or "return") reaches the caller.
Finished(r, e) ==
    [r EXCEPT !.pc = "done", !.pending = "none", !.outcome = e,
              !.semRef = 0, !.waitTimeout = "zero"]

\* Mutant: the temporary file is left behind.
KeepOutPath(r) == r

\* run_codex_last_message: "finally: os.remove(out_path)"
RemoveOutPath(r) == [r EXCEPT !.out_path = FALSE]

\* An exception e leaves the "async with slot()" block with no subprocess handler
\* left to run: streaming mode is done, batch mode runs its outer finally.
LeaveCall(t, r, e) ==
    IF r.mode = "batch"
    THEN SlotExit(t, Finished(RemoveOutPath(r), e))
    ELSE SlotExit(t, Finished(r, e))

\* The code from the call to the first suspension: batch mode creates the
\* temporary file, then slot() starts acquire() on the current semaphore.
Call(t, m) ==
    /\ task[t].pc = "idle"
    /\ LET r == [task[t] EXCEPT !.mode = m, !.out_path = (m = "batch"),
                                !.semRef = semaphore,
                                !.waitTimeout = queue_timeout_seconds]
       IN IF permits[semaphore] > 0
          THEN /\ task' = [task EXCEPT ![t] =
                              [r EXCEPT !.pc = "spawn", !.acquired = TRUE, !.nAcq = @ + 1,
                                        !.waitTimeout = "zero"]]
               /\ permits' = [permits EXCEPT ![semaphore] = @ - 1]
               /\ UNCHANGED <<limiterConfig, outsideRunner>>
          ELSE Suspend(t, [r EXCEPT !.pc = "waiting"])

\* Mutant: the waiter proceeds without a permit being free.
AcquireWithoutPermit(t) ==
    /\ task[t].pc = "waiting"
    /\ task' = [task EXCEPT ![t] =
                   [@ EXCEPT !.pc = "spawn", !.acquired = TRUE, !.nAcq = @ + 1,
                             !.waitTimeout = "zero"]]
    /\ permits' = [permits EXCEPT ![task[t].semRef] = @ - 1]
    /\ UNCHANGED <<limiterConfig, outsideRunner>>

\* A permit of the awaited semaphore became available to the waiter.
Acquire(t) ==
    /\ task[t].pc = "waiting"
    /\ permits[task[t].semRef] > 0
    /\ task' = [task EXCEPT ![t] =
                   [@ EXCEPT !.pc = "spawn", !.acquired = TRUE, !.nAcq = @ + 1,
                             !.waitTimeout = "zero"]]
    /\ permits' = [permits EXCEPT ![task[t].semRef] = @ - 1]
    /\ UNCHANGED <<limiterConfig, outsideRunner>>

\* Mutant: the timed-out waiter releases a permit it never took.
QueueTimeoutReleases(t) ==
    /\ task[t].pc = "waiting"
    /\ task[t].waitTimeout = "pos"
    /\ LeaveCall(t, [task[t] EXCEPT !.acquired = TRUE], "CodexError503")

\* wait_for(acquire, timeout) expired: CodexError(status_code=503), acquired False.
QueueTimeout(t) ==
    /\ task[t].pc = "waiting"
    /\ task[t].waitTimeout = "pos"
    /\ LeaveCall(t, task[t], "CodexError503")

----------------------------------------------------------------------------
(* The subprocess and the stderr-drain task, as the event loop sees them *)

\* The loop observes the child's exit: proc.returncode is set.
ProcExit(t, rc) ==
    /\ task[t].proc
    /\ task[t].returncode = "None"
    /\ rc = IF task[t].killed THEN "sigkill" ELSE rc
    /\ Suspend(t, [task[t] EXCEPT !.returncode = rc])

\* _read_stderr_text: proc.stderr.read() reached end of file.
StderrFinish(t) ==
    /\ task[t].stderr_task = "running"
    /\ Suspend(t, [task[t] EXCEPT !.stderr_task = "done"])

StderrDone(r) == r.stderr_task \in {"done", "cancelled"}

----------------------------------------------------------------------------
(* run_codex: streaming mode *)

\* "if proc.returncode is None: proc.kill()"
Kill(r) == [r EXCEPT !.killed = TRUE]

\* finally, second half: cancel and await the stderr task unless it is done.
StreamFinallyStderr(t, r, e) ==
    IF r.stderr_task # "none" /\ ~StderrDone(r)
    THEN Suspend(t, [r EXCEPT !.stderr_task = "cancelling",
                              !.pc = "fin_stderr", !.pending = e])
    ELSE SlotExit(t, Finished(r, e))

\* finally, first half: kill and await a process that has not exited.
StreamFinally(t, r, e) ==
    IF r.returncode = "None"
    THEN Suspend(t, [Kill(r) EXCEPT !.pc = "fin_wait", !.pending = e])
    ELSE StreamFinallyStderr(t, r, e)

\* Mutant: no except clause for TimeoutError, only the finally runs.
StreamTimeoutUnhandled(t, r, where) ==
    StreamFinally(t, [r EXCEPT !.timedOutAt = where], "TimeoutError")

\* except asyncio.TimeoutError: kill, wait, raise CodexError(status_code=504)
StreamTimeoutHandler(t, r, where) ==
    LET r1 == [r EXCEPT !.timedOutAt = where]
    IN IF r1.returncode = "None"
       THEN Suspend(t, [Kill(r1) EXCEPT !.pc = "to_wait", !.pending = "CodexError504"])
       ELSE StreamFinally(t, r1, "CodexError504")

\* except asyncio.CancelledError: kill, wait, raise
StreamCancelHandler(t, r) ==
    IF r.returncode = "None"
    THEN Suspend(t, [Kill(r) EXCEPT !.pc = "ca_wait", !.pending = "CancelledError"])
    ELSE StreamFinally(t, r, "CancelledError")

\* _remaining_timeout() raises only when timeout_seconds > 0.
MayExpire(expired) == expired => timeout_seconds = "pos"

\* create_subprocess_exec returned.  Streaming mode takes started_at, creates
\* the stderr task and awaits the first readline() (no time has passed at the
\* first budget check); batch mode awaits communicate().
SpawnOk(t) ==
    /\ task[t].pc = "spawn"
    /\ LET r == [task[t] EXCEPT !.proc = TRUE]
       IN IF r.mode = "stream"
          THEN Suspend(t, [r EXCEPT !.stderr_task = "running", !.pc = "readline"])
          ELSE Suspend(t, [r EXCEPT !.pc = "communicate"])

\* create_subprocess_exec raised: FileNotFoundError and PermissionError become
\* CodexError in both modes; streaming mode also wraps every other Exception.
SpawnFail(t, exc) ==
    /\ task[t].pc = "spawn"
    /\ exc \in {"FileNotFoundError", "PermissionError", "OSError"}
    /\ LeaveCall(t, task[t],
                 IF exc = "OSError" /\ task[t].mode = "batch" THEN "OSError" ELSE "CodexError")

\* readline() returned a line; the filter emits a chunk for it or not.
ReadLine(t, emit, expired) ==
    /\ task[t].pc = "readline"
    /\ MayExpire(expired)
    /\ ~emit \/ ~expired
    /\ IF emit
       THEN Suspend(t, [task[t] EXCEPT !.pc = "yield"])
       ELSE IF expired
            THEN StreamTimeoutHandler(t, task[t], "check")
            ELSE Suspend(t, task[t])

\* The consumer asks for the next chunk: the loop checks the budget and reads on.
Resume(t, expired) ==
    /\ task[t].pc = "yield"
    /\ MayExpire(expired)
    /\ IF expired
       THEN StreamTimeoutHandler(t, task[t], "check")
       ELSE Suspend(t, [task[t] EXCEPT !.pc = "readline"])

\* The consumer closes the generator while it is suspended at the yield:
\* GeneratorExit skips both except clauses and runs the finally.
Close(t) ==
    /\ task[t].pc = "yield"
    /\ StreamFinally(t, task[t], "GeneratorExit")

\* readline() returned b"": leave the loop, check the budget, await proc.wait().
ReadEOF(t, expired) ==
    /\ task[t].pc = "readline"
    /\ MayExpire(expired)
    /\ IF expired
       THEN StreamTimeoutHandler(t, task[t], "check")
       ELSE Suspend(t, [task[t] EXCEPT !.pc = "wait"])

\* wait_for(proc.stdout.readline(), remaining) expired.
ReadTimeout(t) ==
    /\ task[t].pc = "readline"
    /\ timeout_seconds = "pos"
    /\ StreamTimeoutHandler(t, task[t], "readline")

\* wait_for(proc.wait(), remaining) expired.
WaitTimeout(t) ==
    /\ task[t].pc = "wait"
    /\ timeout_seconds = "pos"
    /\ task[t].returncode = "None"
    /\ StreamTimeoutHandler(t, task[t], "wait")

\* proc.wait() returned: a non-zero status awaits the stderr task to classify.
WaitDone(t) ==
    /\ task[t].pc = "wait"
    /\ task[t].returncode # "None"
    /\ Suspend(t, [task[t] EXCEPT !.pc =
                      IF task[t].returncode # "zero" THEN "err_stderr" ELSE "ok_stderr"])

\* Mutant: the exit status is not looked at.
StderrAwaitedStatusIgnored(t) ==
    /\ task[t].pc \in {"err_stderr", "ok_stderr"}
    /\ StderrDone(task[t])
    /\ StreamFinally(t, task[t], "return")

\* "await stderr_task" returned on either path of the try body.
StderrAwaited(t) ==
    /\ task[t].pc \in {"err_stderr", "ok_stderr"}
    /\ StderrDone(task[t])
    /\ StreamFinally(t, task[t],
                     IF task[t].pc = "err_stderr" THEN "CodexErrorExit" ELSE "return")

\* "await proc.wait()" returned inside an except clause or the finally.
CleanupWaitDone(t) ==
    /\ task[t].pc \in {"to_wait", "ca_wait", "fin_wait"}
    /\ task[t].returncode # "None"
    /\ IF task[t].pc = "fin_wait"
       THEN StreamFinallyStderr(t, task[t], task[t].pending)
       ELSE StreamFinally(t, task[t], task[t].pending)

\* The cancelled stderr task ran and ended with CancelledError, so
\* "with suppress(CancelledError): await stderr_task" returned in the finally.
CleanupStderrDone(t) ==
    /\ task[t].pc = "fin_stderr"
    /\ task[t].stderr_task = "cancelling"
    /\ SlotExit(t, Finished([task[t] EXCEPT !.stderr_task = "cancelled"], task[t].pending))

----------------------------------------------------------------------------
(* run_codex_last_message: batch mode *)

\* Mutant: the handler kills the subprocess but does not await its exit.
BatchHandlerNoWait(t, r, e) ==
    SlotExit(t, Finished(RemoveOutPath(IF r.proc /\ r.returncode = "None"
                                       THEN Kill(r) ELSE r), e))

\* except TimeoutError / CancelledError of the outer try, entered after the slot
\* was left: "if proc and proc.returncode is None: proc.kill(); await proc.wait()",
\* then raise e through "finally: os.remove(out_path)".
BatchHandler(t, r, e) ==
    IF r.proc /\ r.returncode = "None"
    THEN SlotExit(t, [Kill(r) EXCEPT !.pc = "b_wait", !.pending = e])
    ELSE SlotExit(t, Finished(RemoveOutPath(r), e))

\* proc.communicate() returned within the timeout (wait_for with a timeout that
\* is not positive never returns a result): the slot is left, a non-zero
\* status raises the classified CodexError, otherwise the text is returned.
CommunicateDone(t) ==
    /\ task[t].pc = "communicate"
    /\ timeout_seconds = "pos"
    /\ task[t].returncode # "None"
    /\ SlotExit(t, Finished(RemoveOutPath(task[t]),
                            IF task[t].returncode # "zero" THEN "CodexErrorExit" ELSE "return"))

\* wait_for(proc.communicate(), timeout=settings.timeout_seconds) expired; a
\* timeout that is not positive expires at once.
CommunicateTimeout(t) ==
    /\ task[t].pc = "communicate"
    /\ BatchHandler(t, [task[t] EXCEPT !.timedOutAt = "communicate"], "CodexError504")

\* "await proc.wait()" returned inside the except clause.
BatchWaitDone(t) ==
    /\ task[t].pc = "b_wait"
    /\ task[t].returncode # "None"
    /\ Suspend(t, Finished(RemoveOutPath(task[t]), task[t].pending))

----------------------------------------------------------------------------
(* Cancellation of the task that runs the call, delivered at its current await *)

Cancel(t) ==
    LET r == [task[t] EXCEPT !.cancelled = TRUE]
    IN CASE r.pc \in {"waiting", "spawn"} /\ r.mode = "stream" ->
              \* CancelledError is no Exception: no clause of run_codex catches it here
              LeaveCall(t, r, "CancelledError")
         [] r.pc \in {"waiting", "spawn", "communicate"} /\ r.mode = "batch" ->
              BatchHandler(t, r, "CancelledError")
         [] r.pc \in {"readline", "wait"} ->
              StreamCancelHandler(t, r)
         [] r.pc = "err_stderr" ->
              \* the cancellation is passed on to the awaited stderr task
              StreamCancelHandler(t, [r EXCEPT !.stderr_task =
                                         IF StderrDone(r) THEN @ ELSE "cancelled"])
         [] r.pc = "ok_stderr" ->
              \* with suppress(asyncio.CancelledError): await stderr_task
              StreamFinally(t, [r EXCEPT !.stderr_task =
                                   IF StderrDone(r) THEN @ ELSE "cancelled"], "return")
         [] r.pc \in {"to_wait", "ca_wait"} ->
              \* suppress(Exception) lets CancelledError through; the finally runs
              StreamFinally(t, r, "CancelledError")
         [] r.pc = "fin_wait" ->
              \* the finally is left at its first await
              SlotExit(t, Finished(r, "CancelledError"))
         [] r.pc = "fin_stderr" ->
              \* with suppress(asyncio.CancelledError): await stderr_task
              Suspend(t, r)
         [] r.pc = "b_wait" ->
              Suspend(t, Finished(RemoveOutPath(r), "CancelledError"))
         [] OTHER -> FALSE

----------------------------------------------------------------------------

\* The executions, with the limiter as constructed.
NextFixed ==
    \/ \E t \in Tasks, m \in {"stream", "batch"} : Call(t, m)
    \/ \E t \in Tasks : Acquire(t)
    \/ \E t \in Tasks : QueueTimeout(t)
    \/ \E t \in Tasks : SpawnOk(t)
    \/ \E t \in Tasks, exc \in {"FileNotFoundError", "PermissionError", "OSError"} : SpawnFail(t, exc)
    \/ \E t \in Tasks, rc \in {"zero", "nonzero", "sigkill"} : ProcExit(t, rc)
    \/ \E t \in Tasks : StderrFinish(t)
    \/ \E t \in Tasks, emit \in BOOLEAN, e \in BOOLEAN : ReadLine(t, emit, e)
    \/ \E t \in Tasks, e \in BOOLEAN : Resume(t, e)
    \/ \E t \in Tasks : Close(t)
    \/ \E t \in Tasks, e \in BOOLEAN : ReadEOF(t, e)
    \/ \E t \in Tasks : ReadTimeout(t)
    \/ \E t \in Tasks : WaitTimeout(t)
    \/ \E t \in Tasks : WaitDone(t)
    \/ \E t \in Tasks : StderrAwaited(t)
    \/ \E t \in Tasks : CleanupWaitDone(t)
    \/ \E t \in Tasks : CleanupStderrDone(t)
    \/ \E t \in Tasks : CommunicateDone(t)
    \/ \E t \in Tasks : CommunicateTimeout(t)
    \/ \E t \in Tasks : BatchWaitDone(t)
    \/ \E t \in Tasks : Cancel(t)

SpecFixed == Init /\ [][NextFixed]_vars

\* The executions, with configure() called while they run.
Next ==
    \/ \E mp \in ParallelInputs, qt \in QueueTimeoutInputs : Configure(mp, qt)
    \/ NextFixed

Spec == Init /\ [][Next]_vars

PrepareStages == {"executable", "workdir", "command", "home"}

\* Mutant: the preparation runs inside "async with slot()" and its failure
\* leaves without going through the release.
PrepareFailInsideSlot(t, m, stage) ==
    /\ task[t].pc = "idle"
    /\ permits[semaphore] > 0
    /\ task' = [task EXCEPT ![t] =
                   Finished([@ EXCEPT !.mode = m, !.nAcq = @ + 1], "CodexError")]
    /\ permits' = [permits EXCEPT ![semaphore] = @ - 1]
    /\ UNCHANGED <<limiterConfig, outsideRunner>>

\* _build_cmd_and_env() or _build_codex_env() raised CodexError: the call
\* fails in its first lines, before the temporary file and before slot().
PrepareFail(t, m, stage) ==
    /\ task[t].pc = "idle"
    /\ Suspend(t, Finished([task[t] EXCEPT !.mode = m], "CodexError"))

\* The executions, their preparation failing or not.
NextPrepared ==
    \/ \E t \in Tasks, m \in {"stream", "batch"}, stage \in PrepareStages :
          PrepareFail(t, m, stage)
    \/ Next

SpecPrepared == Init /\ [][NextPrepared]_vars

----------------------------------------------------------------------------
(* run_codex seen with its pipes: one streaming execution without timeout or  *)
(* cancellation, its subprocess writing through two bounded pipes.           *)

WriteTargets == {"out", "err"}

\* The subprocess's remaining writes: a stdout line or a chunk of stderr data each.
Scripts == UNION {[1..n -> WriteTargets] : n \in 0..MaxWrites}

CountOut(sc) == Cardinality({i \in DOMAIN sc : sc[i] = "out"})

\* create_subprocess_exec returned, the stderr task was created, the loop
\* awaits its first readline().
PipeInit ==
    /\ RunnerAtRest
    /\ req = NoRequests
    /\ last = NoLast
    /\ choice = NoChoice
    /\ sse = NoSse
    /\ failure = NoFailure
    /\ build = NoBuild
    /\ threads = NoThreads
    /\ filt = NewFilter /\ fed = << >> /\ parts = << >> /\ shape = NoShape
    /\ scan = NoScan
    /\ paths = NoPaths
    /\ \E sc \in Scripts :
          pipe = [ script |-> sc, stdout |-> 0, stderr |-> 0, child |-> "running",
                   returncode |-> "None", reader |-> "readline",
                   stderr_task |-> "running", nRead |-> 0, nLines |-> CountOut(sc) ]

PipeStep(p) ==
    /\ pipe' = p
    /\ UNCHANGED <<runnerVars, filterVars, scan, paths, threads, build, failure, sse, choice, last, req>>

\* The subprocess performs its next write; it blocks while that pipe is full.
ChildWrite ==
    /\ pipe.child = "running"
    /\ pipe.script # << >>
    /\ IF Head(pipe.script) = "out"
       THEN /\ pipe.stdout < PipeCap
            /\ PipeStep([pipe EXCEPT !.script = Tail(@), !.stdout = @ + 1])
       ELSE /\ pipe.stderr < PipeCap
            /\ PipeStep([pipe EXCEPT !.script = Tail(@), !.stderr = @ + 1])

\* The subprocess has written everything and exits, closing both pipes.
ChildExit(rc) ==
    /\ pipe.child = "running"
    /\ pipe.script = << >>
    /\ PipeStep([pipe EXCEPT !.child = "exited", !.returncode = rc])

\* Mutant: stderr is read only once the runner awaits the task.
StderrReadWhenAwaited ==
    /\ pipe.stderr_task = "running"
    /\ pipe.reader = "stderr"
    /\ pipe.stderr > 0
    /\ PipeStep([pipe EXCEPT !.stderr = 0])

\* _read_stderr_text: proc.stderr.read() takes what the pipe holds.
StderrRead ==
    /\ pipe.stderr_task = "running"
    /\ pipe.stderr > 0
    /\ PipeStep([pipe EXCEPT !.stderr = 0])

\* _read_stderr_text: proc.stderr.read() saw end of file and the task returned.
StderrEOF ==
    /\ pipe.stderr_task = "running"
    /\ pipe.stderr = 0
    /\ pipe.child = "exited"
    /\ PipeStep([pipe EXCEPT !.stderr_task = "done"])

\* readline() returned a line; the filter emits a chunk for it or not.
PipeReadLine(emit) ==
    /\ pipe.reader = "readline"
    /\ pipe.stdout > 0
    /\ PipeStep([pipe EXCEPT !.stdout = @ - 1, !.nRead = @ + 1,
                             !.reader = IF emit THEN "yield" ELSE "readline"])

\* The consumer asks for the next chunk.
PipeResume ==
    /\ pipe.reader = "yield"
    /\ PipeStep([pipe EXCEPT !.reader = "readline"])

\* readline() returned b"": the loop is left and proc.wait() is awaited.
PipeReadEOF ==
    /\ pipe.reader = "readline"
    /\ pipe.stdout = 0
    /\ pipe.child = "exited"
    /\ PipeStep([pipe EXCEPT !.reader = "wait"])

\* proc.wait() returned; either path then awaits the stderr task.
PipeWaitDone ==
    /\ pipe.reader = "wait"
    /\ pipe.child = "exited"
    /\ PipeStep([pipe EXCEPT !.reader = "stderr"])

\* "await stderr_task" returned: run_codex returns or raises the classified error.
PipeStderrAwaited ==
    /\ pipe.reader = "stderr"
    /\ pipe.stderr_task = "done"
    /\ PipeStep([pipe EXCEPT !.reader = "done"])

PipeNext ==
    \/ ChildWrite
    \/ \E rc \in {"zero", "nonzero"} : ChildExit(rc)
    \/ StderrRead
    \/ StderrEOF
    \/ \E emit \in BOOLEAN : PipeReadLine(emit)
    \/ PipeResume
    \/ PipeReadEOF
    \/ PipeWaitDone
    \/ PipeStderrAwaited

\* The event loop runs every task that can run, the consumer keeps iterating,
\* and the operating system runs the subprocess.
PipeFairness ==
    /\ WF_vars(ChildWrite)
    /\ WF_vars(\E rc \in {"zero", "nonzero"} : ChildExit(rc))
    /\ WF_vars(StderrRead)
    /\ WF_vars(StderrEOF)
    /\ WF_vars(\E emit \in BOOLEAN : PipeReadLine(emit))
    /\ WF_vars(PipeResume)
    /\ WF_vars(PipeReadEOF)
    /\ WF_vars(PipeWaitDone)
    /\ WF_vars(PipeStderrAwaited)

PipeSpec == PipeInit /\ [][PipeNext]_vars /\ PipeFairness

----------------------------------------------------------------------------
(* _CodexOutputFilter and its helpers.  A text is a sequence of tokens, each  *)
(* standing for a piece of the text: a word, one symbol character, one white  *)
(* space character, or "TS" for a timestamp such as [2025-09-18T23:14:43].   *)

WhitespaceTokens == {" ", "CR", "LF"}
SymbolTokens == {"-", "(", ")", ":", "{", "}", "[", "]", "QUOTE", "BACKSLASH"}

\* str.lower()
LowerToken(tok) ==
    CASE tok = "User"      -> "user"
      [] tok = "Assistant" -> "assistant"
      [] tok = "TS"        -> "ts"
      [] tok = "High"      -> "high"
      [] tok = "GPT"       -> "gpt"
      [] tok = "Error"     -> "error"
      [] tok = "Unauthorized" -> "unauthorized"
      [] tok = "Rate"      -> "rate"
      [] tok = "Timeout"   -> "timeout"
      [] OTHER             -> tok

Lower(text) == [i \in DOMAIN text |-> LowerToken(text[i])]

RECURSIVE LStrip(_, _)
LStrip(text, chars) ==
    IF text # << >> /\ Head(text) \in chars THEN LStrip(Tail(text), chars) ELSE text

RECURSIVE RStrip(_, _)
RStrip(text, chars) ==
    IF text # << >> /\ text[Len(text)] \in chars
    THEN RStrip(SubSeq(text, 1, Len(text) - 1), chars)
    ELSE text

\* str.strip()
Strip(text) == RStrip(LStrip(text, WhitespaceTokens), WhitespaceTokens)

\* str.startswith(prefix)
StartsWith(text, prefix) ==
    /\ Len(prefix) <= Len(text)
    /\ SubSeq(text, 1, Len(prefix)) = prefix

\* "sub in text"
Contains(text, sub) ==
    \E i \in 1..(Len(text) - Len(sub) + 1) : SubSeq(text, i, i + Len(sub) - 1) = sub

\* str.endswith(":")
EndsWithColon(text) == text # << >> /\ text[Len(text)] = ":"

\* _TIMESTAMP_LINE.match(text): the pattern is anchored at the start and is
\* case sensitive (the lowered timestamp "ts" does not match).
TimestampMatch(text) == text # << >> /\ Head(text) = "TS"

\* _strip_leading_symbols: drop leading characters that are not alphanumeric;
\* of a timestamp only its opening bracket goes.
StripLeadingSymbols(value) ==
    LET rest == LStrip(value, WhitespaceTokens \cup SymbolTokens)
    IN IF rest # << >> /\ Head(rest) \in {"TS", "ts"}
       THEN <<"ts_digits">> \o Tail(rest)
       ELSE rest

KnownMetadataPrefixes ==
    { <<"workdir", ":">>, <<"model", ":">>, <<"provider", ":">>, <<"approval", ":">>,
      <<"sandbox", ":">>, <<"reasoning", " ", "effort", ":">>,
      <<"reasoning", " ", "summaries", ":">>, <<"tokens", " ", "used", ":">>,
      <<"user", " ", "instructions", ":">>, <<"user", ":">>, <<"searched", ":">>,
      <<"searching", ":">>, <<"retrying", " ">>, <<"error", ":">>, <<"tool", " ">> }

\* Mutant: no line is taken for metadata.
NeverMetadataLine(text) == FALSE

\* Mutant: the prefixes are looked for in the text as written, neither
\* lower-cased nor stripped of leading symbols.
IsMetadataLineAsWritten(text) ==
    \/ TimestampMatch(text)
    \/ \E prefix \in KnownMetadataPrefixes : StartsWith(text, prefix)

IsMetadataLine(text) ==
    \/ TimestampMatch(text)
    \/ \E prefix \in KnownMetadataPrefixes :
          StartsWith(StripLeadingSymbols(Lower(text)), prefix)

\* Mutant: no line is taken for a marker.
NeverCodexMarker(text) == FALSE

LooksLikeCodexMarker(text) ==
    \/ StartsWith(Lower(text), <<"assistant">>)
    \/ TimestampMatch(text) /\ Contains(Lower(text), <<" ", "codex">>)

\* Mutant: quotes are ignored, every bracket counts.
RECURSIVE CountEveryBracket(_, _)
CountEveryBracket(text, mode) ==
    IF text = << >> THEN 0
    ELSE LET ch == Head(text)
         IN CASE ch \in {"[", "{"} -> CountEveryBracket(Tail(text), mode) + 1
              [] ch \in {"]", "}"} -> CountEveryBracket(Tail(text), mode) - 1
              [] OTHER -> CountEveryBracket(Tail(text), mode)

\* The loop of _json_structure_delta from the state (in_string, escape) = mode:
\* "out", "in" (in_string) or "esc" (in_string and escape).
RECURSIVE JsonScan(_, _)
JsonScan(text, mode) ==
    IF text = << >> THEN 0
    ELSE LET ch == Head(text)
         IN CASE mode = "esc" -> JsonScan(Tail(text), "in")
              [] mode = "in" /\ ch = "BACKSLASH" -> JsonScan(Tail(text), "esc")
              [] mode = "in" /\ ch = "QUOTE" -> JsonScan(Tail(text), "out")
              [] mode = "in" -> JsonScan(Tail(text), "in")
              [] ch = "QUOTE" -> JsonScan(Tail(text), "in")
              [] ch \in {"[", "{"} -> JsonScan(Tail(text), "out") + 1
              [] ch \in {"]", "}"} -> JsonScan(Tail(text), "out") - 1
              [] OTHER -> JsonScan(Tail(text), "out")

JsonStructureDelta(text) == JsonScan(text, "out")

\* process() returns None or a text that is not empty; None is the empty text
\* here, which is what "if processed:" tests.
None == << >>

Returns(f, out) == [f |-> f, out |-> out]

\* The tool-header test of process() on the normalized line.
IsToolHeader(normalized) ==
    /\ Contains(normalized, <<" ", "success">>) \/ Contains(normalized, <<" ", "failed">>)
    /\ EndsWithColon(normalized)
    /\ Contains(normalized, <<" ", "in", " ">>)
    /\ Contains(normalized, <<"(">>)
    /\ Contains(normalized, <<")">>)

\* "normalized" of process(): lowered, a leading timestamp removed, leading
\* symbols stripped.
Normalized(stripped) ==
    IF TimestampMatch(stripped)
    THEN StripLeadingSymbols(Lower(Strip(Tail(stripped))))
    ELSE StripLeadingSymbols(Lower(stripped))

\* Mutant: an "assistant:" line ends the user block without being recorded
\* as seen.
ClassifyAssistantUnseen(f, line, stripped) ==
    LET normalized == Normalized(stripped)
    IN CASE StartsWith(normalized, <<"user", " ", "instructions", ":">>)
              \/ StartsWith(normalized, <<"user", ":">>) ->
              Returns([f EXCEPT !.in_user_block = TRUE], None)
         [] StartsWith(normalized, <<"assistant", ":">>) ->
              Returns([f EXCEPT !.in_user_block = FALSE], None)
         [] IsToolHeader(normalized) ->
              Returns([f EXCEPT !.skip_tool_output = TRUE, !.tool_output_depth = 0], None)
         [] stripped = << >> ->
              IF ~f.in_user_block /\ f.emitted_any
              THEN Returns(f, <<"LF">>)
              ELSE Returns(f, None)
         [] f.in_user_block ->
              IF LooksLikeCodexMarker(stripped)
              THEN Returns([f EXCEPT !.in_user_block = FALSE], None)
              ELSE Returns(f, None)
         [] IsMetadataLine(stripped) ->
              Returns(f, None)
         [] OTHER ->
              Returns([f EXCEPT !.saw_assistant = TRUE, !.emitted_any = TRUE],
                      Append(line, "LF"))

\* process(), from "lowered = stripped.lower()" on.
Classify(f, line, stripped) ==
    LET normalized == Normalized(stripped)
    IN CASE StartsWith(normalized, <<"user", " ", "instructions", ":">>)
              \/ StartsWith(normalized, <<"user", ":">>) ->
              Returns([f EXCEPT !.in_user_block = TRUE], None)
         [] StartsWith(normalized, <<"assistant", ":">>) ->
              Returns([f EXCEPT !.in_user_block = FALSE, !.saw_assistant = TRUE], None)
         [] IsToolHeader(normalized) ->
              Returns([f EXCEPT !.skip_tool_output = TRUE, !.tool_output_depth = 0], None)
         [] stripped = << >> ->
              IF ~f.in_user_block /\ f.emitted_any
              THEN Returns(f, <<"LF">>)
              ELSE Returns(f, None)
         [] f.in_user_block ->
              IF LooksLikeCodexMarker(stripped)
              THEN Returns([f EXCEPT !.in_user_block = FALSE], None)
              ELSE Returns(f, None)
         [] IsMetadataLine(stripped) ->
              Returns(f, None)
         [] OTHER ->
              Returns([f EXCEPT !.saw_assistant = TRUE, !.emitted_any = TRUE],
                      Append(line, "LF"))

\* Mutant: a line met while tool output is skipped is classified like any other.
ProcessWithoutSkip(f, raw_line) ==
    LET line == RStrip(raw_line, {"CR", "LF"})
    IN Classify(f, line, Strip(line))

\* Mutant: a timestamped line met while tool output is skipped ends the
\* skipping and is dropped without being classified.
ProcessTimestampDropped(f, raw_line) ==
    LET line == RStrip(raw_line, {"CR", "LF"})
        stripped == Strip(line)
    IN IF ~f.skip_tool_output
       THEN Classify(f, line, stripped)
       ELSE IF stripped = << >> \/ TimestampMatch(stripped)
            THEN Returns([f EXCEPT !.skip_tool_output = FALSE], None)
            ELSE LET depth == f.tool_output_depth + JsonStructureDelta(stripped)
                 IN Returns([f EXCEPT !.tool_output_depth = depth,
                                      !.skip_tool_output = (depth > 0)], None)

\* _CodexOutputFilter.process: the new filter state and the returned text.
Process(f, raw_line) ==
    LET line == RStrip(raw_line, {"CR", "LF"})
        stripped == Strip(line)
    IN IF ~f.skip_tool_output
       THEN Classify(f, line, stripped)
       ELSE IF stripped = << >>
            THEN Returns([f EXCEPT !.skip_tool_output = FALSE], None)
            ELSE IF TimestampMatch(stripped)
                 THEN Classify([f EXCEPT !.skip_tool_output = FALSE], line, stripped)
                 ELSE LET depth == f.tool_output_depth + JsonStructureDelta(stripped)
                      IN Returns([f EXCEPT !.tool_output_depth = depth,
                                           !.skip_tool_output = (depth > 0)], None)

\* "".join(parts)
RECURSIVE Join(_)
Join(texts) == IF texts = << >> THEN << >> ELSE Head(texts) \o Join(Tail(texts))

\* str.splitlines(): the text is cut at every "\n", "\r" and "\r\n"; no empty
\* last line follows a final boundary.  cur is the line being collected.
RECURSIVE SplitFrom(_, _)
SplitFrom(text, cur) ==
    IF text = << >>
    THEN IF cur = << >> THEN << >> ELSE <<cur>>
    ELSE CASE Head(text) = "LF" -> <<cur>> \o SplitFrom(Tail(text), << >>)
           [] Head(text) = "CR" ->
                IF Tail(text) # << >> /\ text[2] = "LF"
                THEN <<cur>> \o SplitFrom(Tail(Tail(text)), << >>)
                ELSE <<cur>> \o SplitFrom(Tail(text), << >>)
           [] OTHER -> SplitFrom(Tail(text), Append(cur, Head(text)))

SplitLines(text) == SplitFrom(text, << >>)

\* The loop of _sanitize_codex_text over the lines still to process.
RECURSIVE SanitizeLoop(_, _, _)
SanitizeLoop(f, lines, collected) ==
    IF lines = << >>
    THEN collected
    ELSE LET r == Process(f, Append(Head(lines), "LF"))
         IN SanitizeLoop(r.f, Tail(lines),
                         IF r.out # None THEN Append(collected, r.out) ELSE collected)

\* Mutant: the trailing newlines are kept.
SanitizeWithoutStrip(raw) ==
    Join(SanitizeLoop(NewFilter, SplitLines(raw), << >>))

SanitizeCodexText(raw) ==
    RStrip(Join(SanitizeLoop(NewFilter, SplitLines(raw), << >>)), {"LF"})

----------------------------------------------------------------------------
(* One filter fed line by line, as run_codex feeds it *)

SampleLines ==
    { << >>,
      <<" ">>,
      <<"TS", " ", "tokens", " ", "used", ":", " ", "text">>,
      <<"TS", " ", "User", " ", "instructions", ":">>,
      <<"user", ":", " ", "text">>,
      <<"Assistant", ":">>,
      <<"assistant", " ", "text">>,
      <<"TS", " ", "codex">>,
      <<"TS", " ", "assistant", " ", "text">>,
      <<"TS", " ", "Assistant", ":">>,
      <<"-", " ", "Error", ":", " ", "text">>,
      <<"TS", " ", "user", ":", " ", "codex">>,
      <<"text">>,
      <<" ", "text", " ">>,
      <<"text", "CR", "text">>,
      <<"text", "CR">>,
      <<"text", "CR", "CR">>,
      <<"text", "(", "text", ")", " ", "in", " ", "text", " ", "failed", ":">>,
      <<"TS", " ", "text", "(", "text", ")", " ", "in", " ", "text", " ", "failed", ":">>,
      <<"{">>,
      <<"}">>,
      <<"QUOTE", "}", "QUOTE">> }

FilterAtRest == filt = NewFilter /\ fed = << >> /\ parts = << >> /\ shape = NoShape

FilterInit ==
    /\ RunnerAtRest
    /\ req = NoRequests
    /\ last = NoLast
    /\ choice = NoChoice
    /\ sse = NoSse
    /\ failure = NoFailure
    /\ build = NoBuild
    /\ threads = NoThreads
    /\ pipe = NoPipe
    /\ scan = NoScan
    /\ paths = NoPaths
    /\ FilterAtRest

\* Mutant: a text that comes out of the filter is handed on twice.
ProcessLineTwice(l) ==
    LET r == Process(filt, l)
    IN /\ filt' = r.f
       /\ fed' = Append(fed, l)
       /\ parts' = IF r.out # None THEN parts \o <<r.out, r.out>> ELSE parts

\* filtered = output_filter.process(line); "if filtered:" keeps it.
ProcessLine(l) ==
    LET r == Process(filt, l)
    IN /\ filt' = r.f
       /\ fed' = Append(fed, l)
       /\ parts' = IF r.out # None THEN Append(parts, r.out) ELSE parts

Feed(l) ==
    /\ Len(fed) < MaxLines
    /\ ProcessLine(l)
    /\ UNCHANGED <<runnerVars, pipe, scan, shape, paths, threads, build, failure, sse, choice, last, req>>

FilterNext == \E l \in SampleLines : Feed(l)

FilterSpec == FilterInit /\ [][FilterNext]_vars

----------------------------------------------------------------------------
(* One filter fed a transcript of the shape of the CLI's output: metadata     *)
(* preamble, user-instructions block, assistant marker, body, trailing        *)
(* metadata.                                                                  *)

IsBlank(l) == Strip(l) = << >>

\* Metadata lines as the CLI prints them before and after the exchange.
MetadataLines ==
    { <<"TS", " ", "tokens", " ", "used", ":", " ", "text">>,
      <<"TS", " ", "codex">>,
      <<"model", ":", " ", "text">> }

UserStartLines ==
    { <<"TS", " ", "User", " ", "instructions", ":">>,
      <<"user", ":", " ", "text">> }

MarkerLines ==
    { <<"Assistant", ":">>,
      <<"assistant", " ", "text">>,
      <<"TS", " ", "Assistant", ":">>,
      <<"TS", " ", "codex">> }

\* A user-instructions block holds any line that is no assistant marker.
UserBlockLines == SampleLines \ MarkerLines

BodyLines == { <<"text">>, <<" ", "text", " ">>, <<"QUOTE", "}", "QUOTE">> }

BlankLines == { << >>, <<" ">> }

TranscriptInit ==
    /\ RunnerAtRest
    /\ req = NoRequests
    /\ last = NoLast
    /\ choice = NoChoice
    /\ sse = NoSse
    /\ failure = NoFailure
    /\ build = NoBuild
    /\ threads = NoThreads
    /\ pipe = NoPipe
    /\ scan = NoScan
    /\ paths = NoPaths
    /\ filt = NewFilter /\ fed = << >> /\ parts = << >>
    /\ shape = [NoShape EXCEPT !.phase = "preamble"]

TranscriptStep(l, sh) ==
    /\ ProcessLine(l)
    /\ shape' = sh
    /\ UNCHANGED <<runnerVars, pipe, scan, paths, threads, build, failure, sse, choice, last, req>>

FeedPreamble(l) ==
    /\ shape.phase = "preamble" /\ shape.preamble < MaxPreamble
    /\ TranscriptStep(l, [shape EXCEPT !.preamble = @ + 1])

FeedUserStart(l) ==
    /\ shape.phase = "preamble"
    /\ TranscriptStep(l, [shape EXCEPT !.phase = "user"])

FeedUserLine(l) ==
    /\ shape.phase = "user" /\ shape.user < MaxUserLines
    /\ TranscriptStep(l, [shape EXCEPT !.user = @ + 1])

FeedMarker(l) ==
    /\ shape.phase = "user"
    /\ TranscriptStep(l, [shape EXCEPT !.phase = "body"])

FeedBody(l) ==
    /\ shape.phase = "body" /\ Len(shape.body) < MaxBody
    /\ TranscriptStep(l, [shape EXCEPT !.body = Append(@, l)])

FeedTrailing(l) ==
    /\ shape.phase \in {"body", "trailing"} /\ shape.trailing < MaxTrailing
    /\ TranscriptStep(l, [shape EXCEPT !.phase = "trailing", !.trailing = @ + 1])

TranscriptNext ==
    \/ \E l \in MetadataLines : FeedPreamble(l)
    \/ \E l \in UserStartLines : FeedUserStart(l)
    \/ \E l \in UserBlockLines : FeedUserLine(l)
    \/ \E l \in MarkerLines : FeedMarker(l)
    \/ \E l \in BodyLines \cup BlankLines : FeedBody(l)
    \/ \E l \in MetadataLines : FeedTrailing(l)

TranscriptSpec == TranscriptInit /\ [][TranscriptNext]_vars

----------------------------------------------------------------------------
(* _json_structure_delta applied to one text *)

JsonChars == {"[", "{", "]", "}", "QUOTE", "BACKSLASH", "text"}

JsonTexts == UNION {[1..n -> JsonChars] : n \in 0..MaxChars}

JsonInit ==
    /\ RunnerAtRest
    /\ req = NoRequests
    /\ last = NoLast
    /\ choice = NoChoice
    /\ sse = NoSse
    /\ failure = NoFailure
    /\ build = NoBuild
    /\ threads = NoThreads
    /\ pipe = NoPipe
    /\ FilterAtRest
    /\ paths = NoPaths
    /\ \E text \in JsonTexts : scan = [text |-> text, computed |-> FALSE, delta |-> 0]

ComputeDelta ==
    /\ ~scan.computed
    /\ scan' = [scan EXCEPT !.computed = TRUE, !.delta = JsonStructureDelta(scan.text)]
    /\ UNCHANGED <<runnerVars, pipe, filterVars, paths, threads, build, failure, sse, choice, last, req>>

JsonNext == ComputeDelta

JsonSpec == JsonInit /\ [][JsonNext]_vars

----------------------------------------------------------------------------
(* _ensure_workdir_exists, _resolve_codex_home_dir and _build_codex_env *)

HomeDir == <<"home">>      \* Path.home()
TempDir == <<"tmp">>       \* tempfile.gettempdir()

\* Path.expanduser()
ExpandUser(path) ==
    IF path # NoPath /\ Head(path) = "~" THEN HomeDir \o Tail(path) ELSE path

\* Path.resolve(): the path with its symlinks followed.
Resolve(path, tmp_is_link) ==
    IF tmp_is_link /\ StartsWith(path, TempDir) THEN <<"private">> \o path ELSE path

\* "if path not in candidates: candidates.append(path)"
AppendNew(candidates, path) ==
    IF \E i \in DOMAIN candidates : candidates[i] = path
    THEN candidates
    ELSE Append(candidates, path)

\* The candidates of _ensure_workdir_exists, in order.
WorkdirCandidates(ps) ==
    AppendNew(AppendNew(<<ExpandUser(ps.codex_workdir)>>,
                        TempDir \o <<"codex-workdir">>),
              HomeDir \o <<".cache", "codex-wrapper">>)

\* The candidates of _resolve_codex_home_dir, in order.
HomeCandidates(ps) ==
    LET configured == IF ps.codex_config_dir # NoPath
                      THEN <<ExpandUser(ps.codex_config_dir)>> ELSE << >>
        withEnv == IF ps.CODEX_HOME # NoPath
                   THEN AppendNew(configured, ExpandUser(ps.CODEX_HOME)) ELSE configured
        withWorkspace == AppendNew(withEnv, ExpandUser(ps.codex_workdir) \o <<".codex">>)
        withTemp == AppendNew(withWorkspace, TempDir \o <<"codex">>)
    IN AppendNew(withTemp, HomeDir \o <<".codex">>)

\* candidate.mkdir(parents=True, exist_ok=True); _verify_directory_write_access(candidate)
ProbeSucceeds(ps, candidate) == Resolve(candidate, ps.tmp_is_link) \in ps.usable

\* Mutant: the first candidate is taken whether or not its probe succeeds.
RECURSIVE ProbeWithoutSkipping(_, _, _)
ProbeWithoutSkipping(ps, candidates, probed) ==
    IF candidates = << >>
    THEN [probed |-> probed, selected |-> NoPath]
    ELSE [probed |-> Append(probed, Head(candidates)), selected |-> Head(candidates)]

\* "for candidate in candidates: try ... except: continue; resolved = candidate; break"
RECURSIVE ProbeLoop(_, _, _)
ProbeLoop(ps, candidates, probed) ==
    IF candidates = << >>
    THEN [probed |-> probed, selected |-> NoPath]
    ELSE IF ProbeSucceeds(ps, Head(candidates))
         THEN [probed |-> Append(probed, Head(candidates)), selected |-> Head(candidates)]
         ELSE ProbeLoop(ps, Tail(candidates), Append(probed, Head(candidates)))

WorkdirInputs == { <<"work">>, <<"~", ".cache", "codex-wrapper">> }
ConfigDirInputs == { NoPath, <<"conf">>, <<"~", ".codex">> }
EnvHomeInputs == { NoPath, <<"envhome">>, <<"conf">> }

\* The directories the candidates can denote.
Directories ==
    { <<"work">>, <<"home", ".cache", "codex-wrapper">>, <<"conf">>, <<"envhome">>,
      <<"home", ".codex">>, <<"work", ".codex">> }
    \cup { Resolve(TempDir \o <<name>>, link) :
              name \in {"codex-workdir", "codex"}, link \in BOOLEAN }

ResolverInit ==
    /\ RunnerAtRest
    /\ req = NoRequests
    /\ last = NoLast
    /\ choice = NoChoice
    /\ sse = NoSse
    /\ failure = NoFailure
    /\ build = NoBuild
    /\ threads = NoThreads
    /\ pipe = NoPipe
    /\ scan = NoScan
    /\ FilterAtRest
    /\ \E w \in WorkdirInputs, c \in ConfigDirInputs, e \in EnvHomeInputs,
          u \in SUBSET Directories, link \in BOOLEAN :
          paths = [NoPaths EXCEPT !.codex_workdir = w, !.codex_config_dir = c,
                                  !.CODEX_HOME = e, !.usable = u, !.tmp_is_link = link]

ResolverStep(ps) ==
    /\ paths' = ps
    /\ UNCHANGED <<runnerVars, pipe, filterVars, scan, threads, build, failure, sse, choice, last, req>>

\* _ensure_workdir_exists(); resolve_ok: resolved.resolve() did not raise.
EnsureWorkdirExists(resolve_ok) ==
    IF paths.WORKDIR_PATH # NoPath
    THEN ResolverStep([paths EXCEPT !.call = "workdir", !.probed = << >>,
                                    !.selected = NoPath, !.raised = FALSE])
    ELSE LET r == ProbeLoop(paths, WorkdirCandidates(paths), << >>)
             resolved == IF resolve_ok
                         THEN Resolve(r.selected, paths.tmp_is_link)
                         ELSE r.selected
         IN IF r.selected = NoPath
            THEN ResolverStep([paths EXCEPT !.call = "workdir", !.probed = r.probed,
                                            !.selected = NoPath, !.raised = TRUE])
            ELSE ResolverStep([paths EXCEPT !.call = "workdir", !.probed = r.probed,
                                            !.selected = r.selected, !.raised = FALSE,
                                            !.codex_workdir = resolved,
                                            !.WORKDIR_PATH = resolved])

\* _build_codex_env(): _resolve_codex_home_dir() with
\* _configure_codex_home_environment(), then env["CODEX_HOME"] is set from the
\* returned path and again from settings.codex_config_dir.
BuildCodexEnv ==
    LET r == ProbeLoop(paths, HomeCandidates(paths), << >>)
    IN IF r.selected = NoPath
       THEN ResolverStep([paths EXCEPT !.call = "home", !.probed = r.probed,
                                       !.selected = NoPath, !.raised = TRUE])
       ELSE ResolverStep([paths EXCEPT !.call = "home", !.probed = r.probed,
                                       !.selected = r.selected, !.raised = FALSE,
                                       !.CODEX_HOME = r.selected,
                                       !.codex_config_dir = r.selected,
                                       !.child_CODEX_HOME = r.selected])

ResolverNext ==
    \/ \E resolve_ok \in BOOLEAN : EnsureWorkdirExists(resolve_ok)
    \/ BuildCodexEnv

ResolverSpec == ResolverInit /\ [][ResolverNext]_vars

----------------------------------------------------------------------------
(* _ensure_workdir_exists called from several threads *)

Threads == 1..NumThreads

\* "if _WORKDIR_PATH is not None: return" before the lock is taken
AlreadyResolved(ps) ==
    ps.WORKDIR_PATH # NoPath

\* Mutant: the test is not repeated once the lock is held.
NotRecheckedUnderLock(ps) ==
    FALSE

\* "if _WORKDIR_PATH is not None: return" inside "with _WORKDIR_LOCK"
AlreadyResolvedUnderLock(ps) ==
    ps.WORKDIR_PATH # NoPath

\* The directories the working-directory candidates can denote.
WorkdirDirectories(ps) ==
    { Resolve(WorkdirCandidates(ps)[i], ps.tmp_is_link) : i \in DOMAIN WorkdirCandidates(ps) }

ThreadsInit ==
    /\ RunnerAtRest
    /\ req = NoRequests
    /\ last = NoLast
    /\ choice = NoChoice
    /\ sse = NoSse
    /\ failure = NoFailure
    /\ build = NoBuild
    /\ pipe = NoPipe
    /\ scan = NoScan
    /\ FilterAtRest
    /\ \E w \in WorkdirInputs, link \in BOOLEAN :
          LET ps == [NoPaths EXCEPT !.codex_workdir = w, !.tmp_is_link = link]
          IN \E u \in SUBSET WorkdirDirectories(ps), g \in SUBSET WorkdirDirectories(ps) :
                /\ paths = [ps EXCEPT !.usable = u]
                /\ threads = [NoThreads EXCEPT !.git = g]

ThreadStep(ps, th) ==
    /\ paths' = ps
    /\ threads' = th
    /\ UNCHANGED <<runnerVars, pipe, filterVars, scan, build, failure, sse, choice, last, req>>

\* A thread calls _ensure_workdir_exists().
ThreadCall(t) ==
    /\ threads.pc[t] = "idle"
    /\ threads.calls < MaxCalls
    /\ ThreadStep(paths,
          [threads EXCEPT !.pc[t] = "check", !.calls = @ + 1,
                          !.late[t] = /\ paths.WORKDIR_PATH # NoPath
                                      /\ \A o \in Threads : threads.pc[o] # "assign_flag"])

\* codex.py:307-308
ThreadCheck(t) ==
    /\ threads.pc[t] = "check"
    /\ ThreadStep(paths,
          [threads EXCEPT !.pc[t] = IF AlreadyResolved(paths) THEN "idle" ELSE "lock"])

\* codex.py:310-326: the lock is taken, the test repeated, the candidates listed
ThreadLock(t) ==
    /\ threads.pc[t] = "lock"
    /\ threads.lock = 0
    /\ IF AlreadyResolvedUnderLock(paths)
       THEN ThreadStep(paths, [threads EXCEPT !.pc[t] = "idle"])
       ELSE ThreadStep(paths,
               [threads EXCEPT !.pc[t] = "probe", !.lock = t,
                               !.cands[t] = WorkdirCandidates(paths),
                               !.errors[t] = << >>,
                               !.resolved[t] = NoPath])

\* Mutant: only the error of the candidate tried last is kept.
ThreadProbeLastErrorOnly(t) ==
    /\ threads.pc[t] = "probe"
    /\ IF threads.cands[t] = << >>
       THEN ThreadStep(paths, [threads EXCEPT !.pc[t] = "idle", !.lock = 0,
                                              !.raised = @ + 1])
       ELSE IF ProbeSucceeds(paths, Head(threads.cands[t]))
            THEN ThreadStep(paths,
                    [threads EXCEPT !.pc[t] = "assign_settings", !.probes = @ + 1,
                                    !.resolved[t] = Resolve(Head(threads.cands[t]),
                                                            paths.tmp_is_link)])
            ELSE ThreadStep(paths,
                    [threads EXCEPT !.cands[t] = Tail(@), !.probes = @ + 1,
                                    !.errors[t] = <<Head(threads.cands[t])>>])

\* codex.py:328-344: one turn of the loop, or CodexError once every candidate failed
ThreadProbe(t) ==
    /\ threads.pc[t] = "probe"
    /\ IF threads.cands[t] = << >>
       THEN ThreadStep(paths, [threads EXCEPT !.pc[t] = "idle", !.lock = 0,
                                              !.raised = @ + 1])
       ELSE IF ProbeSucceeds(paths, Head(threads.cands[t]))
            THEN ThreadStep(paths,
                    [threads EXCEPT !.pc[t] = "assign_settings", !.probes = @ + 1,
                                    !.resolved[t] = Resolve(Head(threads.cands[t]),
                                                            paths.tmp_is_link)])
            ELSE ThreadStep(paths,
                    [threads EXCEPT !.cands[t] = Tail(@), !.probes = @ + 1,
                                    !.errors[t] = Append(@, Head(threads.cands[t]))])

\* codex.py:358-359
ThreadAssignSettings(t) ==
    /\ threads.pc[t] = "assign_settings"
    /\ ThreadStep([paths EXCEPT !.codex_workdir = threads.resolved[t]],
                  [threads EXCEPT !.pc[t] = "assign_path"])

\* codex.py:360
ThreadAssignPath(t) ==
    /\ threads.pc[t] = "assign_path"
    /\ ThreadStep([paths EXCEPT !.WORKDIR_PATH = threads.resolved[t]],
                  [threads EXCEPT !.pc[t] = "assign_flag", !.assigns = @ + 1])

\* codex.py:361, and the lock is released
ThreadAssignFlag(t) ==
    /\ threads.pc[t] = "assign_flag"
    /\ ThreadStep(paths,
          [threads EXCEPT !.pc[t] = "idle", !.lock = 0,
                          !.skip_git = threads.resolved[t] \notin threads.git])

\* The writability of the directories changes.
FsChange ==
    /\ threads.changes < MaxFsChanges
    /\ \E u \in SUBSET (WorkdirDirectories(paths) \cup paths.usable) :
          /\ u # paths.usable
          /\ ThreadStep([paths EXCEPT !.usable = u], [threads EXCEPT !.changes = @ + 1])

ThreadsNext ==
    \/ \E t \in Threads : ThreadCall(t)
    \/ \E t \in Threads : ThreadCheck(t)
    \/ \E t \in Threads : ThreadLock(t)
    \/ \E t \in Threads : ThreadProbe(t)
    \/ \E t \in Threads : ThreadAssignSettings(t)
    \/ \E t \in Threads : ThreadAssignPath(t)
    \/ \E t \in Threads : ThreadAssignFlag(t)
    \/ FsChange

ThreadsSpec == ThreadsInit /\ [][ThreadsNext]_vars

----------------------------------------------------------------------------
(* _build_codex_env called once per request, the directories changing *)

\* The directories the home candidates can denote.
HomeDirectories(ps) ==
    { Resolve(HomeCandidates(ps)[i], ps.tmp_is_link) : i \in DOMAIN HomeCandidates(ps) }

HomeInit ==
    /\ RunnerAtRest
    /\ req = NoRequests
    /\ last = NoLast
    /\ choice = NoChoice
    /\ sse = NoSse
    /\ failure = NoFailure
    /\ build = NoBuild
    /\ threads = NoThreads
    /\ pipe = NoPipe
    /\ scan = NoScan
    /\ FilterAtRest
    /\ \E c \in ConfigDirInputs, e \in EnvHomeInputs, link \in BOOLEAN :
          LET ps == [NoPaths EXCEPT !.codex_config_dir = c, !.CODEX_HOME = e,
                                    !.tmp_is_link = link]
          IN \E u \in SUBSET HomeDirectories(ps) : paths = [ps EXCEPT !.usable = u]

\* One directory becomes writable, or stops being so.
WritabilityChange ==
    \E d \in HomeDirectories(paths) \cup paths.usable :
        ResolverStep([paths EXCEPT !.usable = IF d \in @ THEN @ \ {d} ELSE @ \cup {d}])

HomeNext ==
    \/ BuildCodexEnv
    \/ WritabilityChange

HomeSpec == HomeInit /\ [][HomeNext]_vars

----------------------------------------------------------------------------
(* _build_cmd_and_env *)

\* A value is tagged with its Python type; a str is the sequence of its
\* tokens, an int the digits of its decimal form.
StrValue(text) == [t |-> "str", v |-> text]
BoolValue(b) == [t |-> "bool", v |-> b]
IntValue(digits) == [t |-> "int", v |-> digits]
NoneValue == [t |-> "None", v |-> << >>]

\* bool(value)
Truthy(value) ==
    CASE value.t = "bool" -> value.v
      [] value.t = "str"  -> value.v # << >>
      [] value.t = "None" -> FALSE
      [] OTHER            -> value.v # <<"0">>

\* A dict is the sequence of its <<key, value>> items in insertion order.
DictHas(d, k) == \E i \in DOMAIN d : d[i][1] = k

DictGet(d, k) == d[CHOOSE i \in DOMAIN d : d[i][1] = k][2]

\* d[k] = v
DictSet(d, k, v) ==
    IF DictHas(d, k)
    THEN [i \in DOMAIN d |-> IF d[i][1] = k THEN <<k, v>> ELSE d[i]]
    ELSE Append(d, <<k, v>>)

\* d.pop(k, None)
RECURSIVE DictPop(_, _)
DictPop(d, k) ==
    IF d = << >> THEN << >>
    ELSE IF Head(d)[1] = k THEN Tail(d) ELSE <<Head(d)>> \o DictPop(Tail(d), k)

\* d.update(other)
RECURSIVE DictUpdate(_, _)
DictUpdate(d, other) ==
    IF other = << >> THEN d
    ELSE DictUpdate(DictSet(d, Head(other)[1], Head(other)[2]), Tail(other))

AllowedReasoningEfforts == { <<"low">>, <<"medium">>, <<"high">>, <<"xhigh">> }

\* Mutant: an override whose value is None is mapped like any other.
RECURSIVE MapOverridesNoneNotSkipped(_, _)
MapOverridesNoneNotSkipped(overrides, mapped) ==
    IF overrides = << >> THEN mapped
    ELSE LET k == Head(overrides)[1]
             v == Head(overrides)[2]
             next ==
                CASE k = "sandbox"          -> DictSet(mapped, "sandbox_mode", v)
                  [] k = "reasoning_effort" -> DictSet(mapped, "model_reasoning_effort", v)
                  [] k = "hide_reasoning"   ->
                        DictSet(mapped, "hide_agent_reasoning", BoolValue(Truthy(v)))
                  [] k = "expose_reasoning" ->
                        DictSet(mapped, "hide_agent_reasoning", BoolValue(~Truthy(v)))
                  [] OTHER                  -> DictSet(mapped, k, v)
         IN MapOverridesNoneNotSkipped(Tail(overrides), next)

\* The loop over overrides.items() that fills "mapped".
RECURSIVE MapOverrides(_, _)
MapOverrides(overrides, mapped) ==
    IF overrides = << >> THEN mapped
    ELSE LET k == Head(overrides)[1]
             v == Head(overrides)[2]
             next ==
                CASE v = NoneValue          -> mapped
                  [] k = "sandbox"          -> DictSet(mapped, "sandbox_mode", v)
                  [] k = "reasoning_effort" -> DictSet(mapped, "model_reasoning_effort", v)
                  [] k = "hide_reasoning"   ->
                        DictSet(mapped, "hide_agent_reasoning", BoolValue(Truthy(v)))
                  [] k = "expose_reasoning" ->
                        DictSet(mapped, "hide_agent_reasoning", BoolValue(~Truthy(v)))
                  [] OTHER                  -> DictSet(mapped, k, v)
         IN MapOverrides(Tail(overrides), next)

\* Mutant: a boolean is formatted as Python prints it.
RenderBoolCapitalized(key, value) ==
    CASE value.t = "str"  -> <<key, "=", "QUOTE">> \o value.v \o <<"QUOTE">>
      [] value.t = "bool" -> <<key, "=", IF value.v THEN "True" ELSE "False">>
      [] OTHER            -> <<key, "=">> \o value.v

\* The text following "--config" for one item of cfg.
RenderConfig(key, value) ==
    CASE value.t = "str"  -> <<key, "=", "QUOTE">> \o value.v \o <<"QUOTE">>
      [] value.t = "bool" -> <<key, "=", IF value.v THEN "true" ELSE "false">>
      [] OTHER            -> <<key, "=">> \o value.v

\* "for key, value in cfg.items()"
RECURSIVE RenderItems(_)
RenderItems(cfg) ==
    IF cfg = << >> THEN << >>
    ELSE IF Head(cfg)[1] = "network_access"
         THEN RenderItems(Tail(cfg))
         ELSE <<<<"--config">>, RenderConfig(Head(cfg)[1], Head(cfg)[2])>>
              \o RenderItems(Tail(cfg))

RECURSIVE ImageArgs(_)
ImageArgs(images) ==
    IF images = << >> THEN << >>
    ELSE <<<<"--image">>, Head(images)>> \o ImageArgs(Tail(images))

\* _build_cmd_and_env(prompt, overrides, images, model), the executable and
\* the working directory having been resolved.
BuildCmdAndEnv(b) ==
    LET default_effort == Lower(Strip(b.reasoning_effort))
        cfg0 == << <<"sandbox_mode", StrValue(b.sandbox_mode)>>,
                   <<"hide_agent_reasoning", BoolValue(b.hide_reasoning)>> >>
        cfg1 == IF default_effort \in AllowedReasoningEfforts
                THEN DictSet(cfg0, "model_reasoning_effort", StrValue(default_effort))
                ELSE cfg0
        cfg2 == IF b.overrides # << >>
                THEN DictUpdate(cfg1, MapOverrides(b.overrides, << >>))
                ELSE cfg1
        head == << <<"codex">>, <<"exec">>, <<"prompt">>, <<"--color">>, <<"never">> >>
                \o (IF b.skip_git THEN << <<"--skip-git-repo-check">> >> ELSE << >>)
                \o ImageArgs(b.images)
        cfg == IF /\ b.model # << >>
                  /\ StartsWith(b.model, <<"gpt-5">>)
                  /\ DictHas(cfg2, "model_reasoning_effort")
                  /\ ~( /\ b.overrides # << >>
                        /\ DictHas(b.overrides, "reasoning_effort")
                        /\ Truthy(DictGet(b.overrides, "reasoning_effort")) )
               THEN DictPop(cfg2, "model_reasoning_effort")
               ELSE cfg2
        modelArgs == IF b.model # << >>
                     THEN << <<"--config">>, <<"model", "=", "QUOTE">> \o b.model \o <<"QUOTE">> >>
                     ELSE << >>
        hasNet == /\ b.overrides # << >>
                  /\ DictHas(b.overrides, "network_access")
                  /\ DictGet(b.overrides, "network_access") # NoneValue
        effective_sandbox == DictGet(cfg, "sandbox_mode")
        allow_network == IF hasNet
                         THEN Truthy(DictGet(b.overrides, "network_access"))
                         ELSE b.workspace_network_access
        netArgs == IF /\ effective_sandbox = StrValue(<<"workspace-write">>)
                      /\ (hasNet \/ b.workspace_network_access)
                   THEN << <<"--config">>,
                           <<"sandbox_workspace_write", "=", "{", "network_access", "=",
                             IF allow_network THEN "true" ELSE "false", "}">> >>
                   ELSE << >>
    IN head \o RenderItems(cfg) \o modelArgs \o netArgs

SandboxInputs == { <<"read-only">>, <<"workspace-write">> }
EffortSettings == { <<"medium">>, <<" ", "High", " ">>, <<"none">> }
ModelInputs == { << >>, <<"gpt-5">>, <<"gpt-5", ".1-codex">>, <<"o3">> }

\* The values of one key of the overrides: absent, or one of the values.
OverrideItems(key, values) == { << >> } \cup { << <<key, v>> >> : v \in values }

\* The overrides a request can carry (XCodexOptions with the None fields
\* dropped), and one key the function passes through unchanged.
OverrideInputs ==
    { s \o r \o n \o h \o x :
        s \in OverrideItems("sandbox", {StrValue(<<"workspace-write">>)}),
        r \in OverrideItems("reasoning_effort", {StrValue(<<"high">>), StrValue(<< >>)}),
        n \in OverrideItems("network_access", {BoolValue(TRUE), BoolValue(FALSE)}),
        h \in OverrideItems("hide_reasoning", {BoolValue(TRUE), BoolValue(FALSE)}),
        x \in OverrideItems("max_turns", {IntValue(<<"3">>)}) }

BuildInit ==
    /\ RunnerAtRest
    /\ req = NoRequests
    /\ last = NoLast
    /\ choice = NoChoice
    /\ sse = NoSse
    /\ failure = NoFailure
    /\ pipe = NoPipe
    /\ scan = NoScan
    /\ FilterAtRest
    /\ paths = NoPaths
    /\ threads = NoThreads
    /\ \E sm \in SandboxInputs, hr \in BOOLEAN, re \in EffortSettings, wna \in BOOLEAN,
          sg \in BOOLEAN, m \in ModelInputs, o \in OverrideInputs,
          im \in { << >>, << <<"image.png">> >> } :
          build = [NoBuild EXCEPT !.sandbox_mode = sm, !.hide_reasoning = hr,
                                  !.reasoning_effort = re,
                                  !.workspace_network_access = wna, !.skip_git = sg,
                                  !.model = m, !.overrides = o, !.images = im]

BuildCmd ==
    /\ ~build.built
    /\ build' = [build EXCEPT !.built = TRUE, !.cmd = BuildCmdAndEnv(build)]
    /\ UNCHANGED <<runnerVars, pipe, filterVars, scan, paths, threads, failure, sse, choice, last, req>>

BuildNext == BuildCmd

BuildSpec == BuildInit /\ [][BuildNext]_vars

----------------------------------------------------------------------------
(* _build_cmd_and_env called with overrides of hide_agent_reasoning *)

\* Overrides as a caller of the function can write them: hide_reasoning and
\* expose_reasoning in either order, with a value or with None, and the
\* configuration key sandbox_mode under its own name.
ReasoningOverrideInputs ==
    LET values == {BoolValue(TRUE), BoolValue(FALSE), NoneValue}
    IN { (IF order = 1 THEN h \o e ELSE e \o h) \o s :
            h \in OverrideItems("hide_reasoning", values),
            e \in OverrideItems("expose_reasoning", values),
            s \in OverrideItems("sandbox_mode", {StrValue(<<"workspace-write">>), NoneValue}),
            order \in {1, 2} }

HideInit ==
    /\ RunnerAtRest
    /\ req = NoRequests
    /\ last = NoLast
    /\ choice = NoChoice
    /\ sse = NoSse
    /\ failure = NoFailure
    /\ pipe = NoPipe
    /\ scan = NoScan
    /\ FilterAtRest
    /\ paths = NoPaths
    /\ threads = NoThreads
    /\ \E hr \in BOOLEAN, o \in ReasoningOverrideInputs :
          build = [NoBuild EXCEPT !.hide_reasoning = hr, !.overrides = o]

HideNext == BuildCmd

HideSpec == HideInit /\ [][HideNext]_vars

----------------------------------------------------------------------------
(* _classify_codex_failure *)

Absent == [t |-> "absent"]
ObjectValue(error, message) == [t |-> "dict", error |-> error, message |-> message]

\* The JSON documents of the model: the text of a line and what json.loads
\* returns for it.
JsonDocuments ==
    { [ text |-> <<"{", "error", ":", "{", "message", ":", "Unauthorized", "}", "}">>,
        data |-> ObjectValue(ObjectValue(Absent, StrValue(<<"Unauthorized">>)), Absent) ],
      [ text |-> <<"{", "message", ":", "QUOTE", " ", "text", " ", "QUOTE", "}">>,
        data |-> ObjectValue(Absent, StrValue(<<" ", "text", " ">>)) ],
      [ text |-> <<"{", "message", ":", "QUOTE", "QUOTE", "}">>,
        data |-> ObjectValue(Absent, StrValue(<< >>)) ],
      [ text |-> <<"{", "error", ":", "text", ",", "message", ":", "Timeout", "}">>,
        data |-> ObjectValue(StrValue(<<"text">>), StrValue(<<"Timeout">>)) ],
      [ text |-> <<"{", "error", ":", "{", "message", ":", "3", "}", ",",
                   "message", ":", "429", "}">>,
        data |-> ObjectValue(ObjectValue(Absent, IntValue(<<"3">>)), StrValue(<<"429">>)) ],
      [ text |-> <<"{", "detail", ":", "text", "}">>,
        data |-> ObjectValue(Absent, Absent) ] }

\* json.loads(line): a value, or "JSONDecodeError"
JsonLoads(line) ==
    IF \E d \in JsonDocuments : d.text = line
    THEN (CHOOSE d \in JsonDocuments : d.text = line).data
    ELSE [t |-> "JSONDecodeError"]

\* _collect_lines(text)
CollectLines(text) ==
    LET stripped == [i \in DOMAIN SplitLines(text) |-> Strip(SplitLines(text)[i])]
    IN SelectSeq(stripped, LAMBDA l : l # << >>)

\* Mutant: the message of a JSON line is never looked at.
NoJsonMessage(line) ==
    None

\* The message a JSON line carries: error.message, else message, a string that
\* is not blank, stripped; None when the line carries none.
JsonMessage(line) ==
    IF line # << >> /\ Head(line) = "{" /\ line[Len(line)] = "}"
    THEN LET data == JsonLoads(line)
         IN IF data.t # "dict" THEN None
            ELSE IF /\ data.error.t = "dict"
                    /\ data.error.message.t = "str"
                    /\ Strip(data.error.message.v) # << >>
                 THEN Strip(data.error.message.v)
                 ELSE IF data.message.t = "str" /\ Strip(data.message.v) # << >>
                      THEN Strip(data.message.v)
                      ELSE None
    ELSE None

\* The test on the lowered line.
IsErrorLine(line) ==
    \/ StartsWith(Lower(line), <<"error", ":">>)
    \/ Contains(Lower(line), <<"unauthorized">>)
    \/ Contains(Lower(line), <<"rate", " ", "limit">>)

\* "for line in reversed(lines)": the message found, None when the loop ends
\* without a break.
RECURSIVE ScanLines(_)
ScanLines(lines) ==
    IF lines = << >> THEN None
    ELSE LET line == lines[Len(lines)]
         IN IF JsonMessage(line) # None THEN JsonMessage(line)
            ELSE IF IsErrorLine(line) THEN line
            ELSE ScanLines(SubSeq(lines, 1, Len(lines) - 1))

\* The status derived from the message.
StatusOf(message) ==
    IF Contains(message, <<"401">>) \/ Contains(Lower(message), <<"unauthorized">>)
    THEN "401"
    ELSE IF Contains(message, <<"429">>) \/ Contains(Lower(message), <<"rate", " ", "limit">>)
         THEN "429"
         ELSE IF Contains(Lower(message), <<"timeout">>) THEN "504" ELSE "None"

\* _classify_codex_failure(stdout_text, stderr_text)
ClassifyCodexFailure(stdout_text, stderr_text) ==
    LET lines == (IF stderr_text # << >> THEN CollectLines(stderr_text) ELSE << >>)
                 \o (IF stdout_text # << >> THEN CollectLines(stdout_text) ELSE << >>)
        found == ScanLines(lines)
        message == IF found # None THEN found
                   ELSE IF lines # << >> THEN lines[Len(lines)]
                        ELSE <<"codex execution failed">>
    IN [message |-> message, status_code |-> StatusOf(message)]

FailureLines ==
    { d.text : d \in JsonDocuments }
    \cup { <<"{", "text", "}">>,
           <<" ">>,
           <<"text">>,
           <<" ", "text", " ", "Timeout">>,
           <<"Error", ":", " ", "text">>,
           <<"text", " ", "Unauthorized">>,
           <<"Rate", " ", "limit", " ", "text">>,
           <<"text", " ", "401">> }

\* The texts of at most MaxFailureLines lines, each ended by "\n".
FailureTexts ==
    { Join([i \in DOMAIN ls |-> Append(ls[i], "LF")]) :
        ls \in UNION { [1..k -> FailureLines] : k \in 0..MaxFailureLines } }

FailureInit ==
    /\ RunnerAtRest
    /\ req = NoRequests
    /\ last = NoLast
    /\ choice = NoChoice
    /\ sse = NoSse
    /\ pipe = NoPipe
    /\ scan = NoScan
    /\ FilterAtRest
    /\ paths = NoPaths
    /\ threads = NoThreads
    /\ build = NoBuild
    /\ \E out \in FailureTexts, err \in FailureTexts :
          failure = [NoFailure EXCEPT !.stdout_text = out, !.stderr_text = err]

ClassifyFailure ==
    /\ ~failure.computed
    /\ LET r == ClassifyCodexFailure(failure.stdout_text, failure.stderr_text)
       IN failure' = [failure EXCEPT !.computed = TRUE, !.message = r.message,
                                     !.status_code = r.status_code]
    /\ UNCHANGED <<runnerVars, pipe, filterVars, scan, paths, threads, build, sse, choice, last, req>>

FailureNext == ClassifyFailure

FailureSpec == FailureInit /\ [][FailureNext]_vars

----------------------------------------------------------------------------
(* chat_completions.event_gen: the body of a streaming response *)

ChunkEvent(text) == <<"data", "chunk", text>>
ErrorEvent(message, type) == <<"data", "error", message, type>>
DoneEvent == <<"data", "[DONE]">>

\* What run_codex yields: a text, or an empty string.
TextInputs == { <<"text">>, <<"more">>, << >> }
\* The status_code of a CodexError, 0 for None.
StatusInputs == { 0, 401, 502 }

SseInit ==
    /\ RunnerAtRest
    /\ req = NoRequests
    /\ last = NoLast
    /\ choice = NoChoice
    /\ pipe = NoPipe
    /\ scan = NoScan
    /\ FilterAtRest
    /\ paths = NoPaths
    /\ threads = NoThreads
    /\ build = NoBuild
    /\ failure = NoFailure
    /\ sse = [NoSse EXCEPT !.pc = "running"]

SseStep(s) ==
    /\ sse' = s
    /\ UNCHANGED <<runnerVars, pipe, filterVars, scan, paths, threads, build, failure, choice, last, req>>

\* run_codex yields a text: "if text:" a chunk event is yielded.
RunYield(text) ==
    /\ sse.pc = "running"
    /\ Len(sse.texts) < MaxChunks
    /\ SseStep([sse EXCEPT !.texts = Append(@, text),
                           !.events = IF text # << >> THEN Append(@, ChunkEvent(text)) ELSE @,
                           !.pc = IF text # << >> THEN "chunk" ELSE "running"])

\* The response asks for the next event after a chunk.
SseResume ==
    /\ sse.pc = "chunk"
    /\ SseStep([sse EXCEPT !.pc = "running"])

\* run_codex is exhausted: the finally yields [DONE].
RunReturn ==
    /\ sse.pc = "running"
    /\ SseStep([sse EXCEPT !.outcome = "return", !.events = Append(@, DoneEvent),
                           !.pc = "done"])

\* Mutant: CodexError is not caught, only the finally runs.
RunRaiseUncaught(message, status) ==
    /\ sse.pc = "running"
    /\ SseStep([sse EXCEPT !.outcome = "CodexError", !.message = message,
                           !.status_code = status,
                           !.events = Append(@, DoneEvent), !.pc = "done_raising"])

\* run_codex raises CodexError: "except CodexError" yields the error event.
RunRaise(message, status) ==
    /\ sse.pc = "running"
    /\ LET code == IF status = 0 THEN 500 ELSE status
       IN SseStep([sse EXCEPT !.outcome = "CodexError", !.message = message,
                              !.status_code = status,
                              !.events = Append(@, ErrorEvent(message,
                                            IF code >= 500 THEN "server_error"
                                            ELSE "upstream_error")),
                              !.pc = "error"])

\* The response asks for the next event after the error event: the finally
\* yields [DONE].
SseResumeAfterError ==
    /\ sse.pc = "error"
    /\ SseStep([sse EXCEPT !.events = Append(@, DoneEvent), !.pc = "done"])

\* run_codex raises something else (CancelledError of the task): no clause
\* catches it, the finally yields [DONE] before the exception goes on.
RunRaiseOther ==
    /\ sse.pc = "running"
    /\ SseStep([sse EXCEPT !.outcome = "CancelledError",
                           !.events = Append(@, DoneEvent), !.pc = "done_raising"])

\* The response asks for the next event after [DONE]: the generator ends, or
\* the pending exception goes on.
SseResumeAfterDone ==
    /\ sse.pc \in {"done", "done_raising"}
    /\ SseStep([sse EXCEPT !.pc = IF @ = "done" THEN "exhausted" ELSE "raised"])

\* The response closes the generator at a yield (client gone): GeneratorExit
\* reaches the finally, whose yield makes aclose() raise RuntimeError; at the
\* yield of the finally itself the generator just ends.
SseClose ==
    /\ sse.pc \in {"chunk", "error", "done", "done_raising"}
    /\ SseStep([sse EXCEPT !.pc = IF @ \in {"chunk", "error"} THEN "RuntimeError"
                                  ELSE "closed"])

SseNext ==
    \/ \E text \in TextInputs : RunYield(text)
    \/ SseResume
    \/ RunReturn
    \/ \E message \in { <<"upstream failed">> }, status \in StatusInputs :
          RunRaise(message, status)
    \/ SseResumeAfterError
    \/ RunRaiseOther
    \/ SseResumeAfterDone
    \/ SseClose

SseSpec == SseInit /\ [][SseNext]_vars

----------------------------------------------------------------------------
(* model_registry.choose_model *)

REASONING_EFFORT_SUFFIXES == << <<"low">>, <<"medium">>, <<"high">>, <<"xhigh">> >>

InSeq(x, seq) == \E i \in DOMAIN seq : seq[i] = x

\* " ".join(raw.split())
RECURSIVE CollapseSpaces(_)
CollapseSpaces(text) ==
    IF text = << >> THEN << >>
    ELSE IF Head(text) \in WhitespaceTokens
         THEN LET rest == LStrip(text, WhitespaceTokens)
              IN IF rest = << >> THEN << >> ELSE <<" ">> \o CollapseSpaces(rest)
         ELSE <<Head(text)>> \o CollapseSpaces(Tail(text))

NormalizeSpaces(raw) == CollapseSpaces(LStrip(raw, WhitespaceTokens))

\* _default_reasoning_aliases_for_model(model)
DefaultReasoningAliases(model) ==
    IF StartsWith(model, <<"gpt-5">>) THEN REASONING_EFFORT_SUFFIXES ELSE None

\* _split_model_and_effort(raw): <<base, effort>>, effort None if there is none
SplitModelAndEffort(raw, alias_map) ==
    LET normalized == NormalizeSpaces(raw)
    IN IF normalized = << >> THEN <<normalized, None>>
       ELSE IF \E i \in DOMAIN normalized : normalized[i] = " "
            THEN LET cut == CHOOSE i \in DOMAIN normalized :
                               /\ normalized[i] = " "
                               /\ \A j \in (i + 1)..Len(normalized) : normalized[j] # " "
                     base == SubSeq(normalized, 1, cut - 1)
                     suffix_lower == Lower(SubSeq(normalized, cut + 1, Len(normalized)))
                     supported == IF DictHas(alias_map, base)
                                  THEN DictGet(alias_map, base) ELSE None
                 IN IF base # << >> /\ InSeq(suffix_lower, REASONING_EFFORT_SUFFIXES)
                    THEN IF supported # None /\ InSeq(suffix_lower, supported)
                         THEN <<base, suffix_lower>>
                         ELSE IF /\ DefaultReasoningAliases(base) # None
                                 /\ InSeq(suffix_lower, DefaultReasoningAliases(base))
                              THEN <<base, suffix_lower>>
                              ELSE <<normalized, None>>
                    ELSE <<normalized, None>>
            ELSE <<normalized, None>>

DEFAULT_MODEL == <<"codex-cli">>

\* get_default_model()
GetDefaultModel(available) ==
    IF available # << >> THEN available[1] ELSE DEFAULT_MODEL

PreferredModels ==
    << <<"gpt-5", ".1">>, <<"gpt-5">>, <<"gpt-5", ".3">>, <<"gpt-5", ".3", "-codex">> >>

\* _resolve_legacy_model_alias(requested_model): a model, or None
ResolveLegacyModelAlias(requested_model, available) ==
    IF Lower(Strip(requested_model)) \notin { <<"gpt">>, <<"local_openai">> }
    THEN None
    ELSE IF \E i \in DOMAIN PreferredModels : InSeq(PreferredModels[i], available)
         THEN PreferredModels[CHOOSE i \in DOMAIN PreferredModels :
                                 /\ InSeq(PreferredModels[i], available)
                                 /\ \A j \in 1..(i - 1) : ~InSeq(PreferredModels[j], available)]
         ELSE GetDefaultModel(available)

\* Mutant: the alias resolves to the default model.
ChooseFirstAvailable(requested, available, alias_map) ==
    <<GetDefaultModel(available), None>>

\* choose_model(requested): <<model, effort>>, or <<"ValueError">>
ChooseModel(requested, available, alias_map) ==
    IF requested # << >>
    THEN LET split == SplitModelAndEffort(requested, alias_map)
             base_model == split[1]
             aliased_model == ResolveLegacyModelAlias(base_model, available)
         IN IF aliased_model # None
            THEN IF split[2] = None /\ Lower(Strip(base_model)) = <<"gpt">>
                 THEN <<aliased_model, <<"low">>>>
                 ELSE <<aliased_model, split[2]>>
            ELSE IF InSeq(base_model, available)
                 THEN <<base_model, split[2]>>
                 ELSE <<"ValueError">>
    ELSE <<GetDefaultModel(available), None>>

ModelNames ==
    { <<"gpt-5", ".1">>, <<"gpt-5">>, <<"gpt-5", ".3", "-codex">>, <<"o4-mini">> }

\* The lists of distinct model names.
ModelLists ==
    { l \in UNION { [1..n -> ModelNames] : n \in 0..Cardinality(ModelNames) } :
        \A i, j \in DOMAIN l : i # j => l[i] # l[j] }

AliasMaps == { << >>, << <<<<"o4-mini">>, << <<"low">> >>>> >> }

RequestedInputs ==
    { << >>, <<"gpt">>, <<" ", "GPT", " ">>, <<"local_openai">>, <<"gpt", " ", "High">>,
      <<"gpt-5", ".1">>, <<"gpt-5", ".1", " ", " ", "High">>, <<"o4-mini", " ", "low">>,
      <<"o4-mini", " ", "high">>, <<"gpt-4">> }

ChoiceInit ==
    /\ RunnerAtRest
    /\ req = NoRequests
    /\ last = NoLast
    /\ pipe = NoPipe
    /\ scan = NoScan
    /\ FilterAtRest
    /\ paths = NoPaths
    /\ threads = NoThreads
    /\ build = NoBuild
    /\ failure = NoFailure
    /\ sse = NoSse
    /\ \E r \in RequestedInputs, a \in ModelLists, m \in AliasMaps :
          choice = [NoChoice EXCEPT !.requested = r, !.AVAILABLE_MODELS = a,
                                    !.REASONING_ALIAS_MAP = m]

Choose ==
    /\ ~choice.computed
    /\ choice' = [choice EXCEPT !.computed = TRUE,
                                !.result = ChooseModel(choice.requested,
                                                       choice.AVAILABLE_MODELS,
                                                       choice.REASONING_ALIAS_MAP)]
    /\ UNCHANGED <<runnerVars, pipe, filterVars, scan, paths, threads, build, failure, sse, last, req>>

ChoiceNext == Choose

ChoiceSpec == ChoiceInit /\ [][ChoiceNext]_vars

----------------------------------------------------------------------------
(* run_codex_last_message after a subprocess that exited with status 0 *)

\* "with open(out_path) as f: text = f.read()", "" on any exception.
ReadOutPath(readable, file_text) == IF readable THEN file_text ELSE << >>

\* Mutant: a file holding only whitespace counts as empty.
SourceTextBlankIsEmpty(readable, file_text, stdout_data) ==
    LET text == ReadOutPath(readable, file_text)
    IN IF Strip(text) = << >> THEN stdout_data ELSE text

\* "if not text: text = (stdout_data or b"").decode(errors="ignore")"
SourceText(readable, file_text, stdout_data) ==
    LET text == ReadOutPath(readable, file_text)
    IN IF text = << >> THEN stdout_data ELSE text

\* "sanitized = _sanitize_codex_text(text); if sanitized: return sanitized;
\* return text.strip()"
LastMessage(readable, file_text, stdout_data) ==
    LET text == SourceText(readable, file_text, stdout_data)
        sanitized == SanitizeCodexText(text)
    IN IF sanitized # << >> THEN sanitized ELSE Strip(text)

\* Texts of the file and of stdout: empty, whitespace, content, metadata only,
\* a transcript, content between blank characters.
LastTexts ==
    { << >>,
      <<" ", "LF">>,
      <<"text", "LF">>,
      <<"model", ":", " ", "text", "LF">>,
      <<"TS", " ", "codex", "LF", "text", "LF", "LF">>,
      <<" ", "text", " ">>,
      <<"LF", "text", "LF", "LF", "more">>,
      <<"user", ":", " ", "text", "LF", "text", "LF">> }

LastInit ==
    /\ RunnerAtRest
    /\ req = NoRequests
    /\ choice = NoChoice
    /\ sse = NoSse
    /\ failure = NoFailure
    /\ build = NoBuild
    /\ threads = NoThreads
    /\ pipe = NoPipe
    /\ scan = NoScan
    /\ paths = NoPaths
    /\ FilterAtRest
    /\ \E readable \in BOOLEAN, file_text \in LastTexts, stdout_data \in LastTexts :
          last = [NoLast EXCEPT !.readable = readable, !.file_text = file_text,
                                !.stdout_data = stdout_data]

\* The statements of run_codex_last_message after "if proc.returncode != 0".
ReturnLastMessage ==
    /\ ~last.computed
    /\ last' = [last EXCEPT !.computed = TRUE,
                            !.result = LastMessage(last.readable, last.file_text,
                                                   last.stdout_data)]
    /\ UNCHANGED <<runnerVars, pipe, filterVars, scan, paths, threads, build, failure, sse, choice, req>>

LastNext == ReturnLastMessage

LastSpec == LastInit /\ [][LastNext]_vars

----------------------------------------------------------------------------
(* chat_completions and responses_endpoint: the temporary image files *)

Requests == 1..NumRequests

RequestStep(r, rec) ==
    /\ req' = [req EXCEPT ![r] = rec]
    /\ UNCHANGED <<runnerVars, pipe, filterVars, scan, paths, threads, build, failure, sse, choice, last>>

\* "finally: for p in image_paths: os.remove(p)"
RemoveImages(rec) == [rec EXCEPT !.files = {}]

\* The handler up to its first await.  save_image_to_temp() is called for each
\* URL, the one numbered bad (if any) raising ValueError: the files saved so
\* far are removed and the request is refused with 400.  A streaming request
\* then builds event_gen(), returns the StreamingResponse and runs the
\* finally; any other request awaits run_codex_last_message.
ReceiveRequest(r, endpoint, stream, urls, bad) ==
    /\ req[r].pc = "idle"
    /\ LET rec == [req[r] EXCEPT !.endpoint = endpoint, !.stream = stream]
       IN IF bad \in 1..urls
          THEN RequestStep(r, [rec EXCEPT !.pc = "done", !.image_paths = bad - 1,
                                          !.files = {}, !.status = 400])
          ELSE LET saved == [rec EXCEPT !.image_paths = urls, !.files = 1..urls]
               IN IF stream
                  THEN RequestStep(r, RemoveImages([saved EXCEPT !.pc = "responded",
                                                                 !.status = 200]))
                  ELSE RequestStep(r, [saved EXCEPT !.pc = "batch",
                                                    !.execution = "running"])

\* run_codex_last_message returned or raised CodexError: the response or the
\* HTTPException is built and the finally removes the files.
BatchEnd(r, status) ==
    /\ req[r].pc = "batch"
    /\ RequestStep(r, RemoveImages([req[r] EXCEPT !.pc = "done", !.status = status,
                                                  !.execution = "finished"]))

\* The server starts to iterate the body of the StreamingResponse: event_gen
\* runs to its first suspension.  responses_endpoint yields the
\* response.created event first; chat_completions calls run_codex at once.
StreamBegin(r) ==
    /\ req[r].pc = "responded"
    /\ IF req[r].endpoint = "responses"
       THEN RequestStep(r, [req[r] EXCEPT !.pc = "created"])
       ELSE RequestStep(r, [req[r] EXCEPT !.pc = "streaming", !.execution = "running"])

\* responses_endpoint: event_gen is resumed after response.created and calls
\* run_codex.
StreamRun(r) ==
    /\ req[r].pc = "created"
    /\ RequestStep(r, [req[r] EXCEPT !.pc = "streaming", !.execution = "running"])

\* run_codex is exhausted or raised CodexError, and event_gen ends.
StreamEnd(r) ==
    /\ req[r].pc = "streaming"
    /\ RequestStep(r, [req[r] EXCEPT !.pc = "done", !.execution = "finished"])

RequestsInit ==
    /\ RunnerAtRest
    /\ last = NoLast
    /\ choice = NoChoice
    /\ sse = NoSse
    /\ failure = NoFailure
    /\ build = NoBuild
    /\ threads = NoThreads
    /\ pipe = NoPipe
    /\ scan = NoScan
    /\ paths = NoPaths
    /\ FilterAtRest
    /\ req = NoRequests

RequestsNext ==
    \/ \E r \in Requests, endpoint \in {"chat", "responses"}, stream \in BOOLEAN,
          urls \in 0..MaxImages, bad \in 0..MaxImages :
          ReceiveRequest(r, endpoint, stream, urls, bad)
    \/ \E r \in Requests, status \in {200, 502} : BatchEnd(r, status)
    \/ \E r \in Requests : StreamBegin(r)
    \/ \E r \in Requests : StreamRun(r)
    \/ \E r \in Requests : StreamEnd(r)

RequestsSpec == RequestsInit /\ [][RequestsNext]_vars

----------------------------------------------------------------------------
(* Properties *)

Inside == {t \in Tasks : task[t].acquired}

Unreaped == {t \in Tasks : task[t].proc /\ task[t].returncode = "None"}

AllFinished == \A t \in Tasks : task[t].pc \in {"idle", "done"}

\* C1: with the limiter never reconfigured, at most max_parallel callers are
\* inside slot() at any time, and a caller enters the guarded body only by
\* taking a permit that was free: one that finds none stays in acquire until a
\* holder has released, and otherwise leaves only by its queue timeout (503) or
\* by being cancelled.
C1_AtMostMaxParallelInside ==
    /\ [](Cardinality(Inside) <= max_parallel)
    /\ [][\A t \in Tasks :
            /\ (~task[t].acquired /\ task'[t].acquired)
                  => Cardinality(Inside) < max_parallel
            /\ (task[t].pc = "idle" /\ Cardinality(Inside) = max_parallel)
                  => task'[t].pc \in {"idle", "waiting"}
            /\ (task[t].pc = "waiting" /\ task'[t].pc \notin {"waiting", "spawn"})
                  => \/ task[t].waitTimeout = "pos" /\ task'[t].outcome = "CodexError503"
                     \/ task'[t].cancelled]_vars

\* max_parallel callers are inside at once and one more is blocked in acquire.
C1_Witness ==
    /\ Cardinality(Inside) = max_parallel
    /\ \E t \in Tasks : task[t].pc = "waiting"

\* C2: a caller whose queue wait ends without a permit had a positive queue
\* timeout, fails with CodexError 503, has spawned no subprocess, and its
\* failure changes no semaphore's permit count.
C2_QueueTimeoutIs503 ==
    [][\A t \in Tasks :
          (task[t].pc = "waiting" /\ task'[t].pc = "done" /\ ~task'[t].cancelled)
             => /\ task[t].waitTimeout = "pos"
                /\ task'[t].outcome = "CodexError503"
                /\ ~task'[t].proc
                /\ task'[t].nAcq = 0 /\ task'[t].nRel = 0
                /\ permits' = permits]_vars

\* A caller failed with 503 while every slot was held.
C2_Witness ==
    \E t \in Tasks :
        /\ task[t].outcome = "CodexError503"
        /\ Cardinality(Inside) = max_parallel

\* C3: every acquisition is released exactly once and a failed acquisition
\* never, so that with all executions finished the free permits of the
\* limiter's semaphore equal the configured maximum.
C3_ReleasesBalance ==
    /\ \A t \in Tasks : task[t].pc = "done" => task[t].nRel = task[t].nAcq
    /\ \A t \in Tasks : task[t].nRel <= task[t].nAcq
    /\ AllFinished => permits[semaphore] = max_parallel

\* C4 as stated: a streaming execution whose budget ran out while it waited
\* for a stdout line or for the process to exit (and that nobody cancelled)
\* has killed the subprocess and failed with CodexError 504.
C4_TimeoutAlwaysKills ==
    \A t \in Tasks :
        ( /\ task[t].mode = "stream" /\ task[t].pc = "done"
          /\ task[t].timedOutAt \in {"readline", "wait"}
          /\ ~task[t].cancelled )
        => task[t].killed /\ task[t].outcome = "CodexError504"

\* C4 amended: on such a timeout the subprocess is killed if it had not yet
\* exited, and in either case it has exited when the call fails with 504.
C4_TimeoutKillsIfAlive ==
    /\ [](\A t \in Tasks :
            ( /\ task[t].mode = "stream" /\ task[t].pc = "done"
              /\ task[t].timedOutAt \in {"readline", "wait"}
              /\ ~task[t].cancelled )
            => task[t].outcome = "CodexError504" /\ task[t].returncode # "None")
    /\ [][\A t \in Tasks :
            ( /\ task[t].timedOutAt = "none"
              /\ task'[t].timedOutAt \in {"readline", "wait"} )
            => /\ timeout_seconds = "pos"
               /\ task[t].returncode = "None" => task'[t].killed /\ task'[t].pc = "to_wait"
               /\ task'[t].pc = "to_wait" \/ task'[t].returncode # "None"]_vars

\* A streaming execution timed out in readline with the process alive, killed
\* it and failed with 504.
C4_Witness ==
    \E t \in Tasks :
        /\ task[t].mode = "stream" /\ task[t].pc = "done"
        /\ task[t].timedOutAt = "readline" /\ task[t].killed
        /\ task[t].returncode = "sigkill"
        /\ task[t].outcome = "CodexError504"

\* C5: a batch execution whose subprocess had not finished when the timeout
\* expired kills it and awaits its exit, and (unless cancelled meanwhile) fails
\* with CodexError 504 once the subprocess has exited.
C5_BatchTimeoutKills ==
    /\ [](\A t \in Tasks :
            ( /\ task[t].mode = "batch" /\ task[t].pc = "done"
              /\ task[t].timedOutAt = "communicate"
              /\ ~task[t].cancelled )
            => task[t].outcome = "CodexError504" /\ task[t].returncode # "None")
    /\ [][\A t \in Tasks :
            ( /\ task[t].timedOutAt = "none"
              /\ task'[t].timedOutAt = "communicate"
              /\ task[t].returncode = "None" )
            => task'[t].killed /\ task'[t].pc = "b_wait"]_vars

\* A batch execution timed out, killed its subprocess and failed with 504.
C5_Witness ==
    \E t \in Tasks :
        /\ task[t].mode = "batch" /\ task[t].pc = "done"
        /\ task[t].timedOutAt = "communicate" /\ task[t].killed
        /\ task[t].returncode = "sigkill"
        /\ task[t].outcome = "CodexError504"

\* C6: a call that raises to its caller after spawning a subprocess does so
\* only when the subprocess has exited (its return code is set).
C6_NoFailureWithChildRunning ==
    \A t \in Tasks :
        ( /\ task[t].pc = "done" /\ task[t].proc
          /\ task[t].outcome \notin {"return", "GeneratorExit"} )
        => task[t].returncode # "None"

\* C7: when a batch call has returned or raised, its temporary last-message
\* file no longer exists, whatever the path (a file exists only while its
\* batch call is running).
C7_OutPathRemoved ==
    \A t \in Tasks :
        task[t].out_path => task[t].mode = "batch" /\ task[t].pc \notin {"idle", "done"}

\* A batch call was cancelled while still queued for a slot, and its file is gone.
C7_Witness ==
    \E t \in Tasks :
        /\ task[t].mode = "batch" /\ task[t].pc = "done"
        /\ task[t].outcome = "CancelledError" /\ task[t].nAcq = 0
        /\ ~task[t].out_path

\* C8: the subprocesses spawned and not yet seen to exit never outnumber the
\* limiter's maximum, and each of them still holds the slot that admitted it.
C8_UnreapedWithinLimit ==
    /\ Cardinality(Unreaped) <= max_parallel
    /\ \A t \in Unreaped : task[t].acquired

\* C9: the permits of the limiter's current semaphore never exceed the current
\* maximum, and the callers admitted by it never outnumber that maximum.
C9_NewSemaphoreWithinMax ==
    /\ permits[semaphore] <= max_parallel
    /\ Cardinality({t \in Inside : task[t].semRef = semaphore}) <= max_parallel

\* C10: a streaming execution that was cancelled after its subprocess was
\* spawned finishes only with the subprocess exited, the stderr task completed
\* or cancelled, and the slot released.
C10_CancelCleansUp ==
    \A t \in Tasks :
        ( /\ task[t].mode = "stream" /\ task[t].pc = "done"
          /\ task[t].cancelled /\ task[t].proc )
        => /\ task[t].returncode # "None"
           /\ StderrDone(task[t])
           /\ ~task[t].acquired

\* C11: a cancellation delivered while run_codex is suspended in its try body
\* (reading a stdout line, waiting for the process, or awaiting the stderr
\* task on the non-zero-exit or on the success path) becomes the exception in
\* flight, stays so through the cleanup, and is what the caller receives.
C11_CancelPropagates ==
    [][\A t \in Tasks :
          /\ ( /\ task[t].pc \in {"readline", "wait", "err_stderr", "ok_stderr"}
               /\ ~task[t].cancelled /\ task'[t].cancelled )
             => "CancelledError" \in {task'[t].pending, task'[t].outcome}
          /\ task[t].pending = "CancelledError"
             => "CancelledError" \in {task'[t].pending, task'[t].outcome}]_vars

\* C12: the stderr task exists from the moment the first stdout read is
\* awaited, and when a streaming call that spawned its subprocess is over
\* (returned, raised, or closed by its consumer) the stderr task has completed
\* or has been cancelled and awaited.
C12_StderrTaskNeverOutlives ==
    \A t \in Tasks :
        task[t].mode = "stream" /\ task[t].proc
        => /\ task[t].stderr_task # "none"
           /\ task[t].pc = "done" => StderrDone(task[t])

\* C14: with a positive execution timeout, wherever a streaming execution is
\* suspended (queued for a slot, reading a stdout line, waiting for the
\* process, awaiting the unfinished stderr task) the wait is armed with the
\* remaining budget, so that the expiry of the budget can end it.
C14_EveryWaitBounded ==
    \A t \in Tasks :
        ( /\ task[t].mode = "stream" /\ timeout_seconds = "pos"
          /\ \/ task[t].pc \in {"waiting", "readline"}
             \/ task[t].pc = "wait" /\ task[t].returncode = "None"
             \/ task[t].pc \in {"err_stderr", "ok_stderr"} /\ ~StderrDone(task[t]) )
        => ENABLED (ReadTimeout(t) \/ WaitTimeout(t))

\* C13: with bounded pipes and every task, the consumer and the subprocess
\* scheduled fairly, a write blocked on the full stderr pipe is eventually
\* unblocked, the runner reads every stdout line the subprocess wrote, and
\* run_codex finishes after the subprocess has exited and the stderr task is done.
C13_NoPipeDeadlock ==
    /\ <>(pipe.reader = "done")
    /\ [](pipe.reader = "done"
            => /\ pipe.nRead = pipe.nLines
               /\ pipe.child = "exited" /\ pipe.stderr_task = "done"
               /\ pipe.stdout = 0 /\ pipe.stderr = 0)
    /\ ( ( /\ pipe.child = "running" /\ pipe.script # << >>
           /\ Head(pipe.script) = "err" /\ pipe.stderr = PipeCap )
         ~> pipe.stderr < PipeCap )

\* The subprocess is blocked writing to the full stderr pipe, with stdout lines
\* still to come, while the runner is blocked reading the empty stdout pipe.
C13_Witness ==
    /\ pipe.child = "running" /\ pipe.stderr = PipeCap
    /\ pipe.script # << >> /\ Head(pipe.script) = "err"
    /\ "out" \in {pipe.script[i] : i \in DOMAIN pipe.script}
    /\ pipe.reader = "readline" /\ pipe.stdout = 0

\* The text whose lines, each ended by "\n", are the lines fed so far.
RawText == Join([i \in DOMAIN fed |-> Append(fed[i], "LF")])

\* What the consumer of the stream has once trailing newlines are stripped.
StreamedText == RStrip(Join(parts), {"LF"})

\* The line holds no line-boundary character except a "\r" that ends it.
InnerBoundaryFree(l) ==
    \A i \in DOMAIN l : l[i] \in {"CR", "LF"} => i = Len(l) /\ l[i] = "CR"

\* C16 as stated: for every sequence of lines, _sanitize_codex_text of the
\* whole text equals the non-empty results of a fresh filter fed line by line,
\* concatenated and stripped of trailing newlines.
C16_SanitizeEqualsStreaming ==
    SanitizeCodexText(RawText) = StreamedText

\* C16 amended: the two agree for every sequence of lines none of which holds
\* a line-boundary character other than a "\r" directly before its "\n".
C16_SanitizeEqualsStreamingOnPlainLines ==
    (\A i \in DOMAIN fed : InnerBoundaryFree(fed[i]))
        => SanitizeCodexText(RawText) = StreamedText

\* Four plain lines, one ended by "\r\n", gave two body lines around an emitted
\* blank line, in both modes.
C16_Witness ==
    /\ Len(fed) = MaxLines
    /\ \A i \in DOMAIN fed : InnerBoundaryFree(fed[i])
    /\ \E i \in DOMAIN fed : fed[i] = <<"text", "CR">>
    /\ Len(parts) = 3 /\ parts[2] = <<"LF">>
    /\ SanitizeCodexText(RawText) = StreamedText

\* C17: a line processed while tool-output suppression is active or while the
\* filter is inside a user block is never emitted, whatever the line.
C17_NothingEmittedWhileSuppressed ==
    [][(filt.skip_tool_output \/ filt.in_user_block) => parts' = parts]_vars

\* Inside a user block a plain text line was processed and nothing came out.
C17_Witness ==
    /\ Len(fed) >= 2
    /\ fed[1] = <<"user", ":", " ", "text">>
    /\ fed[Len(fed)] = <<"text">>
    /\ filt.in_user_block
    /\ parts = << >>

\* The state of the scan after the first k characters of the text: outside a
\* double-quoted span ("out"), inside one ("in"), or inside one right after a
\* backslash ("esc").
RECURSIVE SpanStateAfter(_, _)
SpanStateAfter(text, k) ==
    IF k = 0 THEN "out"
    ELSE LET before == SpanStateAfter(text, k - 1)
         IN CASE before = "esc" -> "in"
              [] before = "in" ->
                   IF text[k] = "BACKSLASH" THEN "esc"
                   ELSE IF text[k] = "QUOTE" THEN "out" ELSE "in"
              [] OTHER -> IF text[k] = "QUOTE" THEN "in" ELSE "out"

OutsideSpans(text, chars) ==
    Cardinality({i \in DOMAIN text : SpanStateAfter(text, i - 1) = "out" /\ text[i] \in chars})

\* C19: the computed depth change of a text is the number of its "[" and "{"
\* minus the number of its "]" and "}" that stand outside double-quoted spans,
\* a backslash inside a span escaping the next character.
C19_DeltaCountsOutsideQuotes ==
    scan.computed
        => scan.delta = OutsideSpans(scan.text, {"[", "{"}) - OutsideSpans(scan.text, {"]", "}"})

\* A closing brace after an escaped quote, still inside the span, counted for nothing.
C19_Witness ==
    /\ scan.computed
    /\ scan.text = <<"{", "QUOTE", "BACKSLASH", "QUOTE", "}">>
    /\ scan.delta = 1

\* The line handed to process() in the step being taken.
LineFed == fed'[Len(fed')]

\* The line starts a user block: normalized, it starts with "user instructions:"
\* or "user:".
IsUserStart(l) ==
    \/ StartsWith(Normalized(Strip(l)), <<"user", " ", "instructions", ":">>)
    \/ StartsWith(Normalized(Strip(l)), <<"user", ":">>)

\* An assistant-turn marker: a line starting with "assistant", or a timestamped
\* line containing " codex", that does not itself start a user block.
IsTurnMarker(l) ==
    /\ ~IsUserStart(l)
    /\ \/ StartsWith(Lower(Strip(l)), <<"assistant">>)
       \/ TimestampMatch(Strip(l)) /\ Contains(Lower(Strip(l)), <<" ", "codex">>)

ConsumedAsToolOutput(l) ==
    filt.skip_tool_output /\ ~TimestampMatch(Strip(l))

\* The lines that end a user block: the turn markers, and the lines that start
\* with "assistant:" once normalized (a timestamp and leading symbols removed).
EndsUserBlock(l) ==
    \/ StartsWith(Normalized(Strip(l)), <<"assistant", ":">>)
    \/ IsTurnMarker(l)

RECURSIVE DropBlank(_)
DropBlank(lines) ==
    IF lines # << >> /\ IsBlank(Head(lines)) THEN DropBlank(Tail(lines)) ELSE lines

RECURSIVE DropBlankEnd(_)
DropBlankEnd(lines) ==
    IF lines # << >> /\ IsBlank(lines[Len(lines)])
    THEN DropBlankEnd(SubSeq(lines, 1, Len(lines) - 1))
    ELSE lines

RECURSIVE JoinLines(_)
JoinLines(lines) ==
    IF lines = << >> THEN << >>
    ELSE LET first == IF IsBlank(Head(lines)) THEN << >> ELSE Head(lines)
         IN IF Len(lines) = 1 THEN first
            ELSE first \o <<"LF">> \o JoinLines(Tail(lines))

BodyText == JoinLines(DropBlankEnd(DropBlank(shape.body)))

UserBlockFed ==
    {fed[i] : i \in (shape.preamble + 2)..(shape.preamble + 1 + shape.user)}

MarkerFed == fed[shape.preamble + shape.user + 2]

SelectedFirstUsable(cands) ==
    \E i \in DOMAIN cands :
        /\ ProbeSucceeds(paths, cands[i])
        /\ \A j \in 1..(i - 1) : ~ProbeSucceeds(paths, cands[j])
        /\ paths'.probed = SubSeq(cands, 1, i)
        /\ paths'.selected = cands[i]

ResolutionComplete ==
    /\ paths.WORKDIR_PATH # NoPath
    /\ \A t \in Threads : threads.pc[t] # "assign_flag"

\* C21: once the working directory is resolved, no call probes a candidate or
\* changes _WORKDIR_PATH, the skip-git flag or settings.codex_workdir, whatever
\* happens to the directories; no call made after the resolution goes past the
\* first test; and with threads racing on the first call the cached path is
\* assigned once, by the holder of the lock.
C21_ResolvedOnce ==
    [][/\ ResolutionComplete
          => /\ threads'.probes = threads.probes
             /\ threads'.assigns = threads.assigns
             /\ threads'.skip_git = threads.skip_git
             /\ paths'.WORKDIR_PATH = paths.WORKDIR_PATH
             /\ paths'.codex_workdir = paths.codex_workdir
       /\ \A t \in Threads :
             threads.late[t] => threads'.pc[t] \in {"idle", "check"}
       /\ threads'.assigns <= 1
       /\ threads'.probes # threads.probes => threads.lock # 0
       /\ paths'.WORKDIR_PATH # paths.WORKDIR_PATH => threads.lock # 0]_vars

\* Three calls were made and have returned: one resolved the directory after
\* a failed probe, none of the others probed, one of them was made after the
\* resolution; and the directory selected has since become unusable.
C21_Witness ==
    /\ ResolutionComplete
    /\ threads.calls = 3 /\ threads.changes = 1
    /\ \A t \in Threads : threads.pc[t] = "idle"
    /\ \E t \in Threads : threads.late[t]
    /\ threads.probes = 2 /\ threads.assigns = 1
    /\ paths.WORKDIR_PATH \notin paths.usable

\* C22: once a call of _build_codex_env has resolved the home directory, every
\* later call returns that same path and neither creates nor probes any
\* candidate, whatever has happened to the directories in between.
C22_HomeResolvedOnce ==
    [][( /\ paths.child_CODEX_HOME # NoPath
         /\ paths'.usable = paths.usable )
       => /\ paths'.child_CODEX_HOME = paths.child_CODEX_HOME
          /\ paths'.probed = << >>
          /\ ~paths'.raised]_vars

\* C23: with no configured directory and no CODEX_HOME in the environment, and
\* both ~/.codex and the working directory's .codex usable, the resolution
\* selects ~/.codex and exposes it as the subprocess CODEX_HOME and as
\* settings.codex_config_dir.
C23_UserHomePreferred ==
    [][( /\ paths'.call = "home" /\ paths' # paths
         /\ paths.codex_config_dir = NoPath /\ paths.CODEX_HOME = NoPath
         /\ ProbeSucceeds(paths, HomeDir \o <<".codex">>)
         /\ ProbeSucceeds(paths, ExpandUser(paths.codex_workdir) \o <<".codex">>) )
       => /\ paths'.selected = HomeDir \o <<".codex">>
          /\ paths'.child_CODEX_HOME = HomeDir \o <<".codex">>
          /\ paths'.codex_config_dir = HomeDir \o <<".codex">>]_vars

\* What the request and the settings configure, as <<key, value>> pairs: each
\* override under its Codex key, the settings where no override is given, the
\* default reasoning effort when it is an allowed one.
Configured ==
    LET o == build.overrides
        effort == Lower(Strip(build.reasoning_effort))
    IN { <<"sandbox_mode", IF DictHas(o, "sandbox") THEN DictGet(o, "sandbox")
                           ELSE StrValue(build.sandbox_mode)>>,
         <<"hide_agent_reasoning", IF DictHas(o, "hide_reasoning")
                                   THEN DictGet(o, "hide_reasoning")
                                   ELSE BoolValue(build.hide_reasoning)>> }
       \cup { <<"model_reasoning_effort", DictGet(o, "reasoning_effort")>> :
                 x \in {1} \cap (IF DictHas(o, "reasoning_effort") THEN {1} ELSE {}) }
       \cup { <<"model_reasoning_effort", StrValue(effort)>> :
                 x \in {1} \cap (IF /\ ~DictHas(o, "reasoning_effort")
                                    /\ effort \in AllowedReasoningEfforts
                                    /\ ~StartsWith(build.model, <<"gpt-5">>)
                                 THEN {1} ELSE {}) }
       \cup { <<"network_access", DictGet(o, "network_access")>> :
                 x \in {1} \cap (IF DictHas(o, "network_access") THEN {1} ELSE {}) }
       \cup { <<"max_turns", DictGet(o, "max_turns")>> :
                 x \in {1} \cap (IF DictHas(o, "max_turns") THEN {1} ELSE {}) }

\* How the claim writes a value after "key=": a string quoted, a boolean as
\* true or false, anything else bare.
Written(key, value) ==
    IF value.t = "str" THEN <<key, "=", "QUOTE">> \o value.v \o <<"QUOTE">>
    ELSE IF value.t = "bool" THEN <<key, "=", IF value.v THEN "true" ELSE "false">>
    ELSE <<key, "=">> \o value.v

\* The argument list holds "--config" followed by the text arg.
HasConfigArg(arg) ==
    \E i \in 1..(Len(build.cmd) - 1) :
        build.cmd[i] = <<"--config">> /\ build.cmd[i + 1] = arg

\* The argument list holds some entry for the key.
HasEntryFor(key) ==
    \E i \in DOMAIN build.cmd : StartsWith(build.cmd[i], <<key, "=">>)

\* C24 as stated: every configured value is written as key="value", key=true,
\* key=false or key=value according to its type; and for a model whose name
\* starts with "gpt-5" and no reasoning_effort override the list has no
\* model_reasoning_effort entry.
C24_EveryValueRendered ==
    build.built =>
        /\ \A kv \in Configured : HasConfigArg(Written(kv[1], kv[2]))
        /\ ( /\ StartsWith(build.model, <<"gpt-5">>)
             /\ ~DictHas(build.overrides, "reasoning_effort") )
           => ~HasEntryFor("model_reasoning_effort")

\* C24 amended: the same for every key but network_access, which is never
\* written as an entry of its own, and for every value but an empty
\* reasoning_effort override, which counts as no override for a "gpt-5" model.
C24_EveryValueButNetworkRendered ==
    build.built =>
        /\ \A kv \in Configured :
              \/ kv[1] = "network_access"
              \/ /\ kv = <<"model_reasoning_effort", StrValue(<< >>)>>
                 /\ StartsWith(build.model, <<"gpt-5">>)
              \/ HasConfigArg(Written(kv[1], kv[2]))
        /\ ~HasEntryFor("network_access")
        /\ ( /\ StartsWith(build.model, <<"gpt-5">>)
             /\ \/ ~DictHas(build.overrides, "reasoning_effort")
                \/ DictGet(build.overrides, "reasoning_effort") = StrValue(<< >>) )
           => ~HasEntryFor("model_reasoning_effort")

\* A command was built for a "gpt-5" model without a reasoning_effort
\* override, the default effort being an allowed one once stripped and
\* lowered, with a boolean, a string and an integer override.
C24_Witness ==
    /\ build.built
    /\ build.model = <<"gpt-5", ".1-codex">>
    /\ build.reasoning_effort = <<" ", "High", " ">>
    /\ ~DictHas(build.overrides, "reasoning_effort")
    /\ DictHas(build.overrides, "hide_reasoning")
    /\ DictHas(build.overrides, "sandbox")
    /\ DictHas(build.overrides, "max_turns")
    /\ HasConfigArg(<<"max_turns", "=", "3">>)
    /\ HasConfigArg(<<"hide_agent_reasoning", "=", "true">>)
    /\ ~build.hide_reasoning

\* C25: a call that fails while it prepares (executable, working directory,
\* home directory, command) has spawned no subprocess, created no temporary
\* file, and has neither held nor consumed a slot: it acquired nothing,
\* released nothing and no semaphore changed.
C25_PrepareFailureTakesNoSlot ==
    [][\A t \in Tasks :
          (task[t].pc = "idle" /\ task'[t].pc = "done")
          => /\ task'[t].outcome = "CodexError"
             /\ ~task'[t].proc /\ task'[t].returncode = "None"
             /\ task'[t].stderr_task = "none"
             /\ ~task'[t].out_path
             /\ ~task'[t].acquired /\ task'[t].nAcq = 0 /\ task'[t].nRel = 0
             /\ permits' = permits
             /\ semaphore' = semaphore]_vars

\* A call failed in its preparation while another execution held a slot and
\* its subprocess was running.
C25_Witness ==
    \E t, o \in Tasks :
        /\ task[t].pc = "done" /\ task[t].outcome = "CodexError"
        /\ task[t].nAcq = 0 /\ task[t].mode = "batch"
        /\ task[o].acquired /\ task[o].proc /\ task[o].returncode = "None"

\* The non-blank lines of stderr followed by those of stdout, stripped.
FailureLinesGiven ==
    CollectLines(failure.stderr_text) \o CollectLines(failure.stdout_text)

\* The string a JSON object line gives as the claim words it: error.message
\* when it is a string, else message when it is a string.
JsonStringOf(line) ==
    LET data == JsonLoads(line)
    IN IF data.t # "dict" THEN [t |-> "absent"]
       ELSE IF data.error.t = "dict" /\ data.error.message.t = "str"
            THEN data.error.message
            ELSE IF data.message.t = "str" THEN data.message ELSE [t |-> "absent"]

\* The same, only a string that is not blank counting, and stripped.
JsonNonBlankStringOf(line) ==
    LET data == JsonLoads(line)
    IN IF data.t # "dict" THEN [t |-> "absent"]
       ELSE IF /\ data.error.t = "dict" /\ data.error.message.t = "str"
               /\ Strip(data.error.message.v) # << >>
            THEN StrValue(Strip(data.error.message.v))
            ELSE IF data.message.t = "str" /\ Strip(data.message.v) # << >>
                 THEN StrValue(Strip(data.message.v))
                 ELSE [t |-> "absent"]

KeywordLine(line) ==
    \/ StartsWith(Lower(line), <<"error", ":">>)
    \/ Contains(Lower(line), <<"unauthorized">>)
    \/ Contains(Lower(line), <<"rate", " ", "limit">>)

\* The status the claim derives from a message.
StatusClaimed(message) ==
    CASE Contains(Lower(message), <<"unauthorized">>) \/ Contains(message, <<"401">>) -> "401"
      [] OTHER ->
         CASE Contains(Lower(message), <<"rate", " ", "limit">>) \/ Contains(message, <<"429">>)
                 -> "429"
           [] OTHER -> IF Contains(Lower(message), <<"timeout">>) THEN "504" ELSE "None"

\* C26 as stated: the last line, stderr's lines coming before stdout's, that
\* is a JSON object with a string error.message or message, or that starts
\* with "error:" or contains "unauthorized" or "rate limit", gives the message
\* (that string, or the line); with no such line the last line does, with no
\* line the fallback; the status follows from the message.
C26_LastMatchingLineWins ==
    failure.computed =>
        LET lines == FailureLinesGiven
            wins == { i \in DOMAIN lines :
                         JsonStringOf(lines[i]).t = "str" \/ KeywordLine(lines[i]) }
            latest == CHOOSE i \in wins : \A j \in wins : j <= i
            message == IF wins # {}
                       THEN IF JsonStringOf(lines[latest]).t = "str"
                            THEN JsonStringOf(lines[latest]).v
                            ELSE lines[latest]
                       ELSE IF lines # << >> THEN lines[Len(lines)]
                            ELSE <<"codex execution failed">>
        IN /\ failure.message = message
           /\ failure.status_code = StatusClaimed(message)

\* C26 amended: the string of a JSON object line counts only when it is not
\* blank, and it becomes the message stripped of surrounding whitespace.
C26_LastMatchingLineWinsNonBlank ==
    failure.computed =>
        LET lines == FailureLinesGiven
            wins == { i \in DOMAIN lines :
                         JsonNonBlankStringOf(lines[i]).t = "str" \/ KeywordLine(lines[i]) }
            latest == CHOOSE i \in wins : \A j \in wins : j <= i
            message == IF wins # {}
                       THEN IF JsonNonBlankStringOf(lines[latest]).t = "str"
                            THEN JsonNonBlankStringOf(lines[latest]).v
                            ELSE lines[latest]
                       ELSE IF lines # << >> THEN lines[Len(lines)]
                            ELSE <<"codex execution failed">>
        IN /\ failure.message = message
           /\ failure.status_code = StatusClaimed(message)

\* A failure was classified from the message of a JSON line of stderr, the
\* lines of stdout after it matching nothing.
C26_Witness ==
    /\ failure.computed
    /\ Len(CollectLines(failure.stderr_text)) = 2
    /\ Len(CollectLines(failure.stdout_text)) = 2
    /\ \A i \in 1..2 : /\ ~KeywordLine(CollectLines(failure.stdout_text)[i])
                       /\ JsonNonBlankStringOf(CollectLines(failure.stdout_text)[i]).t = "absent"
    /\ failure.message = <<"Timeout">>
    /\ failure.status_code = "504"

\* C27: a streaming execution whose stdout reached end of file and whose
\* subprocess exited in time ends normally when the exit status is 0; when it
\* is not, and the execution is not cancelled, it fails with the classified
\* error, raised once the stderr task has read stderr to its end and with no
\* chunk left to yield.
C27_ExitStatusDecides ==
    [][\A t \in Tasks :
          /\ ( task[t].pc = "ok_stderr" /\ task'[t].pc # "ok_stderr" )
             => /\ task[t].returncode = "zero"
                /\ task'[t].pc = "done" /\ task'[t].outcome = "return"
          /\ ( task[t].pc = "err_stderr" /\ task'[t].pc # "err_stderr"
               /\ ~task'[t].cancelled )
             => /\ task[t].returncode \notin {"None", "zero"}
                /\ task[t].stderr_task = "done"
                /\ task'[t].pc = "done" /\ task'[t].outcome = "CodexErrorExit"
          /\ ( task[t].pc = "wait" /\ task'[t].pc \in {"ok_stderr", "err_stderr"} )
             => task[t].mode = "stream" /\ task[t].timedOutAt = "none"]_vars

\* With a timeout armed, one streaming execution ended normally after exit
\* status 0 and another failed with the classified error after a non-zero
\* status, neither cancelled nor timed out.
C27_Witness ==
    /\ timeout_seconds = "pos"
    /\ \E t, o \in Tasks :
          /\ task[t].pc = "done" /\ task[t].mode = "stream"
          /\ task[t].returncode = "zero" /\ task[t].outcome = "return"
          /\ ~task[t].cancelled /\ task[t].timedOutAt = "none"
          /\ task[o].pc = "done" /\ task[o].mode = "stream"
          /\ task[o].returncode = "nonzero" /\ task[o].outcome = "CodexErrorExit"
          /\ task[o].stderr_task = "done"
          /\ ~task[o].cancelled /\ task[o].timedOutAt = "none"

\* The chunk events of the texts that are not empty, in order.
ChunksOf(texts) ==
    LET kept == SelectSeq(texts, LAMBDA x : x # << >>)
    IN [i \in DOMAIN kept |-> ChunkEvent(kept[i])]

IsErrorEvent(e) == Len(e) = 4 /\ e[2] = "error"

\* C28: the events of a streaming response whose run returned or raised
\* CodexError hold at most one [DONE], always in last place; once the
\* generator is exhausted they are the chunks produced, then on failure one
\* error event carrying the message, then [DONE].
C28_DoneIsLast ==
    sse.outcome \in {"return", "CodexError"} =>
        /\ \A i \in DOMAIN sse.events :
              sse.events[i] = DoneEvent => i = Len(sse.events)
        /\ sse.pc \in {"done", "exhausted"} =>
              \E tail \in { << >> } \cup { <<ErrorEvent(sse.message, ty)>> :
                                             ty \in {"server_error", "upstream_error"} } :
                  /\ sse.events = ChunksOf(sse.texts) \o tail \o <<DoneEvent>>
                  /\ (tail # << >>) <=> (sse.outcome = "CodexError")
        /\ Cardinality({ i \in DOMAIN sse.events : IsErrorEvent(sse.events[i]) })
              = IF sse.outcome = "CodexError" THEN 1 ELSE 0
        /\ sse.pc = "error" =>
              /\ Len(sse.events) = Len(ChunksOf(sse.texts)) + 1
              /\ SubSeq(sse.events, 1, Len(sse.events) - 1) = ChunksOf(sse.texts)
              /\ IsErrorEvent(sse.events[Len(sse.events)])

\* A run that had produced two chunks failed with CodexError; the response
\* read the stream to its end.
C28_Witness ==
    /\ sse.pc = "exhausted"
    /\ sse.outcome = "CodexError"
    /\ Len(ChunksOf(sse.texts)) = 2 /\ Len(sse.texts) = 3
    /\ Len(sse.events) = 4
    /\ sse.events[4] = DoneEvent

\* The first model of the preference order that is available, None if none is.
FirstPreferredAvailable ==
    IF \E i \in DOMAIN PreferredModels : InSeq(PreferredModels[i], choice.AVAILABLE_MODELS)
    THEN PreferredModels[CHOOSE i \in DOMAIN PreferredModels :
                            /\ InSeq(PreferredModels[i], choice.AVAILABLE_MODELS)
                            /\ \A j \in 1..(i - 1) :
                                  ~InSeq(PreferredModels[j], choice.AVAILABLE_MODELS)]
    ELSE None

\* C29: choose_model called with the alias "gpt" or "local_openai" and no
\* effort suffix, a model of the preference order being available, returns the
\* first such model and no reasoning effort.
C29_AliasReturnsPreferredWithoutEffort ==
    ( /\ choice.computed
      /\ choice.requested \in { <<"gpt">>, <<"local_openai">> }
      /\ FirstPreferredAvailable # None )
    => choice.result = <<FirstPreferredAvailable, None>>


\* The line that the step has just fed, as process() sees it after
\* rstrip("\r\n") and strip().
StrippedFed(lines) == Strip(RStrip(lines[Len(lines)], {"CR", "LF"}))

\* The line is a tool-output header: after timestamp and symbol stripping it
\* opens neither a user block nor an assistant turn and has the header shape.
HeaderLine(stripped) ==
    LET normalized == Normalized(stripped)
    IN /\ ~StartsWith(normalized, <<"user", " ", "instructions", ":">>)
       /\ ~StartsWith(normalized, <<"user", ":">>)
       /\ ~StartsWith(normalized, <<"assistant", ":">>)
       /\ IsToolHeader(normalized)

\* The step that feeds one line keeps the bracket depth as the claim says: it
\* is zero when suppression starts and, while suppression is on, grows by the
\* depth change of every line that is neither blank nor timestamped.
DepthKept ==
    /\ (~filt.skip_tool_output /\ filt'.skip_tool_output) => filt'.tool_output_depth = 0
    /\ filt.skip_tool_output =>
         LET stripped == StrippedFed(fed')
         IN (stripped # << >> /\ ~TimestampMatch(stripped)) =>
               filt'.tool_output_depth =
                   filt.tool_output_depth + JsonStructureDelta(stripped)

\* C30: once a tool-output header has switched the filter into suppression,
\* suppression is off right after the first following line that is blank, or
\* timestamped, or brings the running bracket depth (zero at the header) to
\* zero or below, and stays on after any other line; no line up to and
\* including that one produces output.
C30_SuppressionEndsAtBorder ==
    [][/\ DepthKept
       /\ filt.skip_tool_output =>
            LET stripped == StrippedFed(fed')
                border == \/ stripped = << >>
                          \/ TimestampMatch(stripped)
                          \/ filt'.tool_output_depth <= 0
            IN /\ parts' = parts
               /\ filt'.skip_tool_output = ~border]_vars

\* C30 as the code has it: a timestamped line met during suppression ends it
\* and is then classified like a line met outside suppression, so that it
\* starts a new suppression at depth zero exactly when it is itself a
\* tool-output header; a blank line, or a line bringing the depth to zero or
\* below, ends suppression; no line up to and including the border produces
\* output.
C30_SuppressionEndsOrRestarts ==
    [][/\ DepthKept
       /\ filt.skip_tool_output =>
            LET stripped == StrippedFed(fed')
            IN /\ parts' = parts
               /\ IF stripped = << >>
                  THEN ~filt'.skip_tool_output
                  ELSE IF TimestampMatch(stripped)
                       THEN /\ filt'.skip_tool_output = HeaderLine(stripped)
                            /\ filt'.skip_tool_output => filt'.tool_output_depth = 0
                       ELSE filt'.skip_tool_output = (filt'.tool_output_depth > 0)]_vars

\* A header started suppression, "{" kept it on at depth one, a timestamped
\* header restarted it at depth zero and "}" ended it; nothing was emitted.
C30_Witness ==
    /\ Len(fed) = 4
    /\ HeaderLine(StrippedFed(SubSeq(fed, 1, 1)))
    /\ fed[2] = <<"{">>
    /\ TimestampMatch(fed[3]) /\ HeaderLine(StrippedFed(SubSeq(fed, 1, 3)))
    /\ fed[4] = <<"}">>
    /\ ~filt.skip_tool_output
    /\ filt.tool_output_depth = -1
    /\ parts = << >>


\* C31: a line processed while tool-output suppression is active leaves the
\* user-block flag, the assistant-seen flag and the emitted-any flag as they
\* were, whatever the line contains.
C31_SuppressedLineTouchesOnlySuppression ==
    [][filt.skip_tool_output =>
          /\ filt'.in_user_block = filt.in_user_block
          /\ filt'.saw_assistant = filt.saw_assistant
          /\ filt'.emitted_any = filt.emitted_any]_vars

\* C31 as the code has it: a line processed during suppression never changes
\* the emitted-any flag; a line that is not timestamped leaves the user-block
\* and assistant-seen flags alone; a timestamped line is classified after
\* ending the suppression: a user-instructions line opens the user block, an
\* "assistant:" line closes it and sets assistant-seen, a tool header changes
\* neither, and any other timestamped line closes the user block exactly when
\* it contains " codex".
C31_OnlyTimestampedLineTouchesBlockFlags ==
    [][filt.skip_tool_output =>
          LET stripped == StrippedFed(fed')
              normalized == Normalized(stripped)
          IN /\ filt'.emitted_any = filt.emitted_any
             /\ IF ~TimestampMatch(stripped)
                THEN /\ filt'.in_user_block = filt.in_user_block
                     /\ filt'.saw_assistant = filt.saw_assistant
                ELSE CASE StartsWith(normalized, <<"user", " ", "instructions", ":">>)
                            \/ StartsWith(normalized, <<"user", ":">>) ->
                            /\ filt'.in_user_block
                            /\ filt'.saw_assistant = filt.saw_assistant
                       [] StartsWith(normalized, <<"assistant", ":">>) ->
                            /\ ~filt'.in_user_block
                            /\ filt'.saw_assistant
                       [] IsToolHeader(normalized) ->
                            /\ filt'.in_user_block = filt.in_user_block
                            /\ filt'.saw_assistant = filt.saw_assistant
                       [] OTHER ->
                            /\ filt'.in_user_block =
                                  (filt.in_user_block
                                     /\ ~Contains(Lower(stripped), <<" ", "codex">>))
                            /\ filt'.saw_assistant = filt.saw_assistant]_vars

\* A user block was open when a header started suppression; the timestamped
\* "Assistant:" line that followed ended the suppression, closed the block and
\* was recorded as seen.
C31_Witness ==
    /\ Len(fed) = 3
    /\ fed[1] = <<"user", ":", " ", "text">>
    /\ HeaderLine(StrippedFed(SubSeq(fed, 1, 2)))
    /\ fed[3] = <<"TS", " ", "Assistant", ":">>
    /\ ~filt.skip_tool_output
    /\ ~filt.in_user_block
    /\ filt.saw_assistant
    /\ parts = << >>


\* The metadata prefixes that the claim lists.
ListedMetadataPrefixes ==
    { <<"workdir", ":">>, <<"model", ":">>, <<"provider", ":">>, <<"approval", ":">>,
      <<"sandbox", ":">>, <<"reasoning", " ", "effort", ":">>,
      <<"reasoning", " ", "summaries", ":">>, <<"tokens", " ", "used", ":">>,
      <<"searched", ":">>, <<"searching", ":">>, <<"retrying", " ">>,
      <<"error", ":">>, <<"tool", " ">> }

\* The line is timestamped, or its lower-cased form without leading symbols
\* starts with a listed prefix.
MetadataShaped(stripped) ==
    \/ TimestampMatch(stripped)
    \/ \E prefix \in ListedMetadataPrefixes :
          StartsWith(StripLeadingSymbols(Lower(stripped)), prefix)

\* C32: in every reachable filter state, a line that is timestamped or whose
\* lower-cased, symbol-stripped form starts with a listed metadata prefix is
\* not emitted.
C32_MetadataNeverEmitted ==
    [][MetadataShaped(StrippedFed(fed')) => parts' = parts]_vars

\* Content had been emitted and the filter was in no block when the line
\* "- Error: text" came; it was dropped.
C32_Witness ==
    /\ fed = << <<"text">>, <<"-", " ", "Error", ":", " ", "text">> >>
    /\ ~filt.in_user_block /\ ~filt.skip_tool_output
    /\ parts = << <<"text", "LF">> >>


\* C33: no blank line is forwarded before the first content line has been
\* emitted, and of consecutive blank lines after content only the first is
\* forwarded: the first chunk is no lone "\n" and no two lone "\n" chunks
\* follow one another.
C33_BlankRunsCollapsed ==
    /\ parts # << >> => parts[1] # <<"LF">>
    /\ \A i \in 1..(Len(parts) - 1) : ~(parts[i] = <<"LF">> /\ parts[i + 1] = <<"LF">>)


\* C34: batch mode and streaming mode agree on whether an execution ends in a
\* timeout.  Streaming mode takes a timeout that is zero or negative for no
\* limit, so under such a timeout no execution of either mode finds its
\* budget exhausted, however long the subprocess runs.
C34_ModesAgreeOnTimeout ==
    \A t \in Tasks : task[t].timedOutAt # "none" => timeout_seconds = "pos"


\* C35: after a batch run that exited with status 0 the source text is the
\* content of the last-message file if it could be read and is not empty,
\* otherwise the captured stdout; the result is the sanitized source text if
\* that is not empty, otherwise the source text stripped of surrounding
\* whitespace; the result is empty only when the source text is whitespace.
C35_LastMessageResult ==
    last.computed =>
        LET source == IF last.readable /\ last.file_text # << >>
                      THEN last.file_text ELSE last.stdout_data
            sanitized == SanitizeCodexText(source)
        IN /\ last.result = IF sanitized # << >> THEN sanitized ELSE Strip(source)
           /\ last.result = << >> =>
                 \A i \in DOMAIN source : source[i] \in WhitespaceTokens

\* The file held only metadata, so that the sanitized text was empty and the
\* stripped file text was returned although stdout had content.
C35_Witness ==
    /\ last.computed
    /\ last.readable
    /\ last.file_text = <<"model", ":", " ", "text", "LF">>
    /\ last.stdout_data = <<"text", "LF">>
    /\ last.result = <<"model", ":", " ", "text">>


\* C36: when every working-directory candidate has failed, the call raises one
\* error that names every candidate, in order, and leaves _WORKDIR_PATH unset
\* and the skip-git flag and settings.codex_workdir as they were; and a call
\* that finds _WORKDIR_PATH unset under the lock starts probing the full list
\* of candidates.
C36_FailureLeavesNothingCached ==
    [][\A t \in Threads :
          /\ (threads.pc[t] = "probe" /\ threads'.pc[t] = "idle") =>
                /\ threads'.raised = threads.raised + 1
                /\ threads'.errors[t] = WorkdirCandidates(paths)
                /\ paths.WORKDIR_PATH = NoPath
                /\ paths' = paths
                /\ threads'.skip_git = threads.skip_git
          /\ (threads.pc[t] = "lock" /\ threads'.pc[t] # "lock"
                 /\ paths.WORKDIR_PATH = NoPath) =>
                /\ threads'.pc[t] = "probe"
                /\ threads'.cands[t] = WorkdirCandidates(paths)]_vars

\* A call failed on every candidate; the directories changed; a later call
\* probed again and resolved the working directory.
C36_Witness ==
    /\ threads.raised = 1
    /\ threads.changes = 1
    /\ ResolutionComplete
    /\ \A t \in Threads : threads.pc[t] = "idle"
    /\ threads.probes > Len(WorkdirCandidates(NoPaths))


\* The entries of the argument list for the key.
EntriesFor(key) == { i \in DOMAIN build.cmd : StartsWith(build.cmd[i], <<key, "=">>) }

\* The override is given: present with a value that is not None.
Given(key) ==
    DictHas(build.overrides, key) /\ DictGet(build.overrides, key) # NoneValue

\* The position of the key in the overrides.
PositionOf(key) == CHOOSE i \in DOMAIN build.overrides : build.overrides[i][1] = key

\* The sandbox_mode entry is the override of that key when given, else the
\* base setting.
SandboxEntryFollowsOverride ==
    HasConfigArg(Written("sandbox_mode",
                         IF Given("sandbox_mode")
                         THEN DictGet(build.overrides, "sandbox_mode")
                         ELSE StrValue(build.sandbox_mode)))

\* C37: the built command has exactly one hide_agent_reasoning entry; its
\* value is that of the override hide_reasoning if given, else the negation
\* of the override expose_reasoning if given, else the base setting; an
\* override that is None leaves the base value, any other replaces it.
C37_HideOverrideFirst ==
    build.built =>
        LET expected == IF Given("hide_reasoning")
                        THEN Truthy(DictGet(build.overrides, "hide_reasoning"))
                        ELSE IF Given("expose_reasoning")
                             THEN ~Truthy(DictGet(build.overrides, "expose_reasoning"))
                             ELSE build.hide_reasoning
        IN /\ Cardinality(EntriesFor("hide_agent_reasoning")) = 1
           /\ HasConfigArg(Written("hide_agent_reasoning", BoolValue(expected)))
           /\ SandboxEntryFollowsOverride

\* C37 as the code has it: the same, except that with both overrides given
\* the one that comes later in the overrides decides.
C37_LaterOverrideDecides ==
    build.built =>
        LET hideDecides == /\ Given("hide_reasoning")
                           /\ Given("expose_reasoning") =>
                                 PositionOf("expose_reasoning") < PositionOf("hide_reasoning")
            expected == IF hideDecides
                        THEN Truthy(DictGet(build.overrides, "hide_reasoning"))
                        ELSE IF Given("expose_reasoning")
                             THEN ~Truthy(DictGet(build.overrides, "expose_reasoning"))
                             ELSE build.hide_reasoning
        IN /\ Cardinality(EntriesFor("hide_agent_reasoning")) = 1
           /\ HasConfigArg(Written("hide_agent_reasoning", BoolValue(expected)))
           /\ SandboxEntryFollowsOverride

\* The base setting hides the reasoning; hide_reasoning=True is followed by
\* expose_reasoning=True and sandbox_mode is None: the command shows the
\* reasoning and keeps the base sandbox mode.
C37_Witness ==
    /\ build.built
    /\ build.hide_reasoning
    /\ build.overrides = << <<"hide_reasoning", BoolValue(TRUE)>>,
                            <<"expose_reasoning", BoolValue(TRUE)>>,
                            <<"sandbox_mode", NoneValue>> >>
    /\ HasConfigArg(<<"hide_agent_reasoning", "=", "false">>)
    /\ HasConfigArg(<<"sandbox_mode", "=", "QUOTE", "read-only", "QUOTE">>)


\* C38: a streaming execution holds its slot wherever it is suspended between
\* the spawn and the end of its cleanup, the yield included; a close that
\* finds the subprocess running kills it; and when the close completes the
\* subprocess has exited, the stderr task has completed or been cancelled and
\* awaited, and the slot has been released.
C38_CloseCleansUp ==
    /\ [](\A t \in Tasks :
             ( /\ task[t].mode = "stream"
               /\ task[t].pc \in {"readline", "yield", "wait", "fin_wait", "fin_stderr"} )
             => task[t].acquired)
    /\ [][\A t \in Tasks :
             /\ ( /\ task[t].pc = "yield" /\ task'[t].pending = "GeneratorExit"
                  /\ task[t].returncode = "None" )
                => task'[t].killed
             /\ (task[t].pending = "GeneratorExit" /\ task'[t].pc = "done")
                => /\ task'[t].returncode # "None"
                   /\ StderrDone(task'[t])
                   /\ ~task'[t].acquired
                   /\ task'[t].nRel = task'[t].nAcq]_vars


\* The line without its terminator: one "\n", one "\r" before it.
WithoutTerminator(l) ==
    LET noLF == IF l # << >> /\ l[Len(l)] = "LF" THEN SubSeq(l, 1, Len(l) - 1) ELSE l
    IN IF noLF # << >> /\ noLF[Len(noLF)] = "CR"
       THEN SubSeq(noLF, 1, Len(noLF) - 1)
       ELSE noLF

\* C39: every line fed adds at most one chunk, at the end of the output; the
\* chunk is a lone "\n" for a blank line, or the line with its terminator
\* replaced by one "\n" and nothing else changed.
C39_OnlyDeletes ==
    [][LET l == fed'[Len(fed')]
       IN \/ parts' = parts
          \/ IsBlank(l) /\ parts' = Append(parts, <<"LF">>)
          \/ ~IsBlank(l) /\ parts' = Append(parts, Append(WithoutTerminator(l), "LF"))]_vars

\* C39 as the code has it: the same, the chunk of a line that is not blank
\* being the line with all its trailing "\r" and "\n" characters replaced by
\* one "\n".
C39_OnlyDeletesTrailingReturns ==
    [][LET l == fed'[Len(fed')]
       IN \/ parts' = parts
          \/ IsBlank(l) /\ parts' = Append(parts, <<"LF">>)
          \/ ~IsBlank(l) /\ parts' = Append(parts, Append(RStrip(l, {"CR", "LF"}), "LF"))]_vars

\* A line ended by two "\r", a blank line and a line between spaces gave three
\* chunks in that order: the first without its "\r"s, a lone "\n", the third
\* with its spaces.
C39_Witness ==
    /\ fed = << <<"text", "CR", "CR">>, <<" ">>, <<" ", "text", " ">> >>
    /\ parts = << <<"text", "LF">>, <<"LF">>, <<" ", "text", " ", "LF">> >>


\* C40: the temporary image files of a request are deleted only after the
\* execution that was given their paths has finished: while that execution
\* has not started or is running, every file saved for the request exists.
C40_ImagesKeptUntilExecutionEnds ==
    \A r \in Requests :
        ( /\ req[r].pc \notin {"idle", "done"}
          /\ req[r].execution # "finished" )
        => req[r].files = 1..req[r].image_paths

====
